---- MODULE Spec2Model ----
(***************************************************************************)
(* minivim: the editor state (src/src/editor.rs), the plugins              *)
(* (src/src/plugins.rs) and the main loop (src/src/main.rs).               *)
(*                                                                         *)
(* A char is a one-element TLA+ string; a Rust String is a sequence of     *)
(* chars.  Storage (byte) offsets are computed from the UTF-8 width of     *)
(* each char, so that character indices and byte offsets differ on lines   *)
(* that hold a multi-byte char.  Rows, columns and byte offsets are        *)
(* 0-based as in the source; TLA+ sequences are 1-based.                   *)
(***************************************************************************)
EXTENDS Integers, Sequences, FiniteSets, TLC

VARIABLES editor, pc, calls, disk, syntax_plugin, frame, render_calls, keys

vars == <<editor, pc, calls, disk, syntax_plugin, frame, render_calls, keys>>

----------------------------------------------------------------------------
(* Bounds of the model *)

MaxRevision == 1
MaxWidth == 1
MaxHeight == 3
MaxFileLen == 1
EditRevision == 2
RenderWidth == 14
MaxLines == 3
MaxLineLen == 3
MaxOps == 1
MaxContentLen == 3

\* the most chars of the left and of the right text of a status line
MaxText == 2

\* the largest start and the largest length of a span, and the most spans
\* of a line
MaxSpan == 2

MaxSpans == 2

\* the most chars typed in one script
MaxTyped == 2

----------------------------------------------------------------------------
(* Characters and strings *)

\* U+00E9, two bytes in UTF-8
EAcute == "E9"

\* char::len_utf8
len_utf8(ch) == IF ch = EAcute THEN 2 ELSE 1

\* char::is_whitespace, on the characters of the model
is_whitespace(ch) == ch \in {" ", "\n"}

RECURSIVE ByteLen(_)
\* str::len: the length in bytes
ByteLen(s) == IF s = <<>> THEN 0 ELSE len_utf8(Head(s)) + ByteLen(Tail(s))

\* the prefix of the first n chars (all of s when n >= chars().count())
Take(s, n) == SubSeq(s, 1, IF n < Len(s) THEN n ELSE Len(s))

\* the suffix after the first n chars
Skip(s, n) == SubSeq(s, (IF n < Len(s) THEN n ELSE Len(s)) + 1, Len(s))

\* str::char_indices: the byte offset of the char with 0-based index k
ByteOffset(s, k) == ByteLen(Take(s, k))

\* str::is_char_boundary
is_char_boundary(s, idx) == \E k \in 0..Len(s) : ByteOffset(s, k) = idx

\* the number of chars that lie before the char boundary idx
CharsBefore(s, idx) == CHOOSE k \in 0..Len(s) : ByteOffset(s, k) = idx

\* String::insert panics unless idx is a char boundary of the string
string_insert_panics(s, idx) == ~is_char_boundary(s, idx)

string_insert(s, idx, ch) ==
    Take(s, CharsBefore(s, idx)) \o <<ch>> \o Skip(s, CharsBefore(s, idx))

\* String::remove panics when idx is the end of the string or no boundary
string_remove_panics(s, idx) == idx >= ByteLen(s) \/ ~is_char_boundary(s, idx)

string_remove(s, idx) ==
    Take(s, CharsBefore(s, idx)) \o Skip(s, CharsBefore(s, idx) + 1)

\* String::split_off panics unless at is a char boundary of the string
split_off_panics(s, at) == ~is_char_boundary(s, at)

\* String::split_off: <<what stays in the string, what is returned>>
split_off(s, at) == <<Take(s, CharsBefore(s, at)), Skip(s, CharsBefore(s, at))>>

RECURSIVE trim_start(_)
trim_start(s) ==
    IF s # <<>> /\ is_whitespace(Head(s)) THEN trim_start(Tail(s)) ELSE s

RECURSIVE trim_end(_)
trim_end(s) ==
    IF s # <<>> /\ is_whitespace(s[Len(s)])
    THEN trim_end(SubSeq(s, 1, Len(s) - 1)) ELSE s

\* str::trim
trim(s) == trim_end(trim_start(s))

RECURSIVE first_token(_)
\* the leading run of non-whitespace chars
first_token(s) ==
    IF s = <<>> \/ is_whitespace(Head(s)) THEN <<>>
    ELSE <<Head(s)>> \o first_token(Tail(s))

RECURSIVE split_whitespace(_)
\* str::split_whitespace: the non-empty whitespace-separated tokens, in order
split_whitespace(s) ==
    IF trim_start(s) = <<>> THEN <<>>
    ELSE <<first_token(trim_start(s))>>
         \o split_whitespace(Skip(trim_start(s), Len(first_token(trim_start(s)))))

RECURSIVE split_newline(_)
\* str::split('\n'): always at least one piece
split_newline(s) ==
    IF \A k \in 1..Len(s) : s[k] # "\n" THEN <<s>>
    ELSE LET k == CHOOSE i \in 1..Len(s) :
                     s[i] = "\n" /\ \A j \in 1..(i - 1) : s[j] # "\n"
         IN  <<SubSeq(s, 1, k - 1)>> \o split_newline(SubSeq(s, k + 1, Len(s)))

RECURSIVE join_newline(_)
\* [String]::join("\n")
join_newline(lines) ==
    IF lines = <<>> THEN <<>>
    ELSE IF Len(lines) = 1 THEN lines[1]
    ELSE lines[1] \o <<"\n">> \o join_newline(Tail(lines))

\* Option<T>
None == <<>>
Some(x) == <<x>>

\* u16::saturating_sub / usize::saturating_sub
saturating_sub(a, b) == IF a > b THEN a - b ELSE 0

----------------------------------------------------------------------------
(* revision: u64, kept as four 16-bit limbs, most significant first *)

Limb == 65536

U64Zero == <<0, 0, 0, 0>>

U64Max == <<Limb - 1, Limb - 1, Limb - 1, Limb - 1>>

\* the u64 of a small natural number
U64(n) == <<0, 0, 0, n>>

\* u64::wrapping_add(1)
wrapping_add_one(r) ==
    IF r[4] < Limb - 1 THEN [r EXCEPT ![4] = r[4] + 1]
    ELSE IF r[3] < Limb - 1 THEN [r EXCEPT ![4] = 0, ![3] = r[3] + 1]
    ELSE IF r[2] < Limb - 1 THEN [r EXCEPT ![4] = 0, ![3] = 0, ![2] = r[2] + 1]
    ELSE IF r[1] < Limb - 1 THEN <<r[1] + 1, 0, 0, 0>>
    ELSE U64Zero

\* a < b on u64
U64Less(a, b) ==
    \E k \in 1..4 : a[k] < b[k] /\ \A j \in 1..(k - 1) : a[j] = b[j]

----------------------------------------------------------------------------
(* Buffer *)

Buffer_new == [lines |-> <<<<>>>>]

\* from_string that splits as str::lines does for an empty string and does
\* not push the line of an empty buffer
Buffer_from_string_lines(contents) ==
    [lines |-> IF contents = <<>> THEN <<>> ELSE split_newline(contents)]

Buffer_from_string(contents) ==
    LET lines == split_newline(contents)
    IN  [lines |-> IF lines = <<>> THEN <<<<>>>> ELSE lines]

\* a to_string that ends every line, the last one too, with a line break
Buffer_to_string_terminated(buffer) == join_newline(buffer.lines) \o <<"\n">>

Buffer_to_string(buffer) == join_newline(buffer.lines)

CommandLine_new == [active |-> FALSE, input |-> <<>>]

\* a status message: the format string and its argument
Status(msg, arg) == [msg |-> msg, arg |-> arg]

NoStatus == Status("", <<>>)

----------------------------------------------------------------------------
(* Editor *)

Editor_new(screen_width, screen_height, file_path) ==
    [buffer |-> Buffer_new,
     cursor |-> [row |-> 0, col |-> 0],
     viewport |-> [row_offset |-> 0, col_offset |-> 0],
     mode |-> "Normal",
     command_line |-> CommandLine_new,
     status |-> NoStatus,
     file_path |-> file_path,
     should_quit |-> FALSE,
     dirty |-> FALSE,
     revision |-> U64Zero,
     screen_width |-> screen_width,
     screen_height |-> screen_height,
     command_queue |-> <<>>]

content_height(e) ==
    saturating_sub(e.screen_height, IF e.command_line.active THEN 2 ELSE 1)

status_row(e) ==
    IF e.command_line.active THEN saturating_sub(e.screen_height, 2)
    ELSE saturating_sub(e.screen_height, 1)

command_row(e) == saturating_sub(e.screen_height, 1)

set_status(e, message) == [e EXCEPT !.status = message]

push_command(e, cmd) == [e EXCEPT !.command_queue = Append(@, cmd)]

\* the line at 0-based row
LineAt(e, row) == e.buffer.lines[row + 1]

NumLines(e) == Len(e.buffer.lines)

current_line_len(e) ==
    IF e.cursor.row < NumLines(e) THEN Len(LineAt(e, e.cursor.row)) ELSE 0

\* a clamp_cursor that brings the row into the buffer and leaves the column
clamp_cursor_row_only(e) ==
    IF e.cursor.row >= NumLines(e)
    THEN [e EXCEPT !.cursor.row = saturating_sub(NumLines(e), 1),
                   !.cursor.col = 0]
    ELSE e

clamp_cursor(e) ==
    LET e1 == IF e.cursor.row >= NumLines(e)
              THEN [e EXCEPT !.cursor.row = saturating_sub(NumLines(e), 1),
                             !.cursor.col = 0]
              ELSE e
        line_len == current_line_len(e1)
    IN  IF e1.cursor.col > line_len THEN [e1 EXCEPT !.cursor.col = line_len]
        ELSE e1

\* an ensure_cursor_visible that scrolls one row or column too late
ensure_cursor_visible_late(e) ==
    LET height == content_height(e)
        width == e.screen_width
        row_offset ==
            IF height = 0 THEN e.cursor.row
            ELSE IF e.cursor.row < e.viewport.row_offset THEN e.cursor.row
            ELSE IF e.cursor.row > e.viewport.row_offset + height
                 THEN saturating_sub(e.cursor.row, height - 1)
            ELSE e.viewport.row_offset
        col_offset ==
            IF width = 0 THEN e.cursor.col
            ELSE IF e.cursor.col < e.viewport.col_offset THEN e.cursor.col
            ELSE IF e.cursor.col > e.viewport.col_offset + width
                 THEN saturating_sub(e.cursor.col, width - 1)
            ELSE e.viewport.col_offset
    IN  [e EXCEPT !.viewport = [row_offset |-> row_offset,
                                col_offset |-> col_offset]]

ensure_cursor_visible(e) ==
    LET height == content_height(e)
        width == e.screen_width
        row_offset ==
            IF height = 0 THEN e.cursor.row
            ELSE IF e.cursor.row < e.viewport.row_offset THEN e.cursor.row
            ELSE IF e.cursor.row >= e.viewport.row_offset + height
                 THEN saturating_sub(e.cursor.row, height - 1)
            ELSE e.viewport.row_offset
        col_offset ==
            IF width = 0 THEN e.cursor.col
            ELSE IF e.cursor.col < e.viewport.col_offset THEN e.cursor.col
            ELSE IF e.cursor.col >= e.viewport.col_offset + width
                 THEN saturating_sub(e.cursor.col, width - 1)
            ELSE e.viewport.col_offset
    IN  [e EXCEPT !.viewport = [row_offset |-> row_offset,
                                col_offset |-> col_offset]]

\* a set_screen_size that leaves the viewport where it was
set_screen_size_no_scroll(e, width, height) ==
    [e EXCEPT !.screen_width = width, !.screen_height = height]

set_screen_size(e, width, height) ==
    ensure_cursor_visible([e EXCEPT !.screen_width = width,
                                    !.screen_height = height])

\* a bump_revision that stays at u64::MAX
bump_revision_saturating(e) ==
    IF e.revision = U64Max THEN e
    ELSE [e EXCEPT !.revision = wrapping_add_one(@)]

bump_revision(e) == [e EXCEPT !.revision = wrapping_add_one(@)]

move_left(e) ==
    ensure_cursor_visible(
        IF e.cursor.col > 0 THEN [e EXCEPT !.cursor.col = @ - 1] ELSE e)

move_right(e) ==
    ensure_cursor_visible(
        IF e.cursor.col < current_line_len(e)
        THEN [e EXCEPT !.cursor.col = @ + 1] ELSE e)

move_up(e) ==
    ensure_cursor_visible(
        IF e.cursor.row > 0
        THEN clamp_cursor([e EXCEPT !.cursor.row = @ - 1]) ELSE e)

move_down(e) ==
    ensure_cursor_visible(
        IF e.cursor.row + 1 < NumLines(e)
        THEN clamp_cursor([e EXCEPT !.cursor.row = @ + 1]) ELSE e)

move_line_start(e) == ensure_cursor_visible([e EXCEPT !.cursor.col = 0])

move_line_end(e) ==
    ensure_cursor_visible([e EXCEPT !.cursor.col = current_line_len(e)])

char_to_byte_index(line, char_index) ==
    IF char_index = 0 THEN 0
    ELSE IF char_index < Len(line) THEN ByteOffset(line, char_index)
    ELSE ByteLen(line)


\* Vec<String> with the line at 0-based row replaced
WithLine(e, row, line) == [e EXCEPT !.buffer.lines[row + 1] = line]

\* Vec::remove at a 0-based index
vec_remove(v, i) == SubSeq(v, 1, i) \o SubSeq(v, i + 2, Len(v))

\* Vec::insert at a 0-based index
vec_insert(v, i, x) == SubSeq(v, 1, i) \o <<x>> \o SubSeq(v, i + 1, Len(v))

\* the editor after the optional push of insert_char / insert_newline
WithCursorLine(e) ==
    IF e.cursor.row >= NumLines(e)
    THEN [e EXCEPT !.buffer.lines = Append(@, <<>>)] ELSE e

insert_char_panics(e, ch) ==
    LET e1 == WithCursorLine(e)
    IN  \/ e1.cursor.row >= NumLines(e1)
        \/ string_insert_panics(LineAt(e1, e1.cursor.row),
               char_to_byte_index(LineAt(e1, e1.cursor.row), e1.cursor.col))

insert_char(e, ch) ==
    LET e1 == WithCursorLine(e)
        line == LineAt(e1, e1.cursor.row)
        byte_idx == char_to_byte_index(line, e1.cursor.col)
        e2 == WithLine(e1, e1.cursor.row, string_insert(line, byte_idx, ch))
    IN  ensure_cursor_visible(
            bump_revision([e2 EXCEPT !.cursor.col = @ + 1, !.dirty = TRUE]))

insert_newline_panics(e) ==
    LET e1 == WithCursorLine(e)
    IN  \/ e1.cursor.row >= NumLines(e1)
        \/ split_off_panics(LineAt(e1, e1.cursor.row),
               char_to_byte_index(LineAt(e1, e1.cursor.row), e1.cursor.col))

\* an insert_newline that puts the tail of the line above its head
insert_newline_above(e) ==
    LET e1 == WithCursorLine(e)
        line == LineAt(e1, e1.cursor.row)
        byte_idx == char_to_byte_index(line, e1.cursor.col)
        halves == split_off(line, byte_idx)
        e2 == WithLine(e1, e1.cursor.row, halves[1])
        e3 == [e2 EXCEPT !.buffer.lines =
                             vec_insert(@, e1.cursor.row, halves[2])]
    IN  ensure_cursor_visible(
            bump_revision([e3 EXCEPT !.cursor.row = @ + 1, !.cursor.col = 0,
                                     !.dirty = TRUE]))

insert_newline(e) ==
    LET e1 == WithCursorLine(e)
        line == LineAt(e1, e1.cursor.row)
        byte_idx == char_to_byte_index(line, e1.cursor.col)
        halves == split_off(line, byte_idx)
        e2 == WithLine(e1, e1.cursor.row, halves[1])
        e3 == [e2 EXCEPT !.buffer.lines =
                             vec_insert(@, e1.cursor.row + 1, halves[2])]
    IN  ensure_cursor_visible(
            bump_revision([e3 EXCEPT !.cursor.row = @ + 1, !.cursor.col = 0,
                                     !.dirty = TRUE]))

backspace_panics(e) ==
    /\ e.cursor.row < NumLines(e)
    /\ e.cursor.col > 0
    /\ string_remove_panics(LineAt(e, e.cursor.row),
           char_to_byte_index(LineAt(e, e.cursor.row), e.cursor.col - 1))

backspace(e) ==
    IF e.cursor.row >= NumLines(e) THEN e
    ELSE IF e.cursor.col > 0 THEN
        LET line == LineAt(e, e.cursor.row)
            remove_col == e.cursor.col - 1
            byte_idx == char_to_byte_index(line, remove_col)
            e1 == WithLine(e, e.cursor.row, string_remove(line, byte_idx))
        IN  ensure_cursor_visible(
                bump_revision([e1 EXCEPT !.cursor.col = @ - 1, !.dirty = TRUE]))
    ELSE IF e.cursor.row > 0 THEN
        LET current == LineAt(e, e.cursor.row)
            e1 == [e EXCEPT !.buffer.lines = vec_remove(@, e.cursor.row),
                            !.cursor.row = @ - 1]
            line == LineAt(e1, e1.cursor.row)
            prev_len == ByteLen(line)
            e2 == WithLine(e1, e1.cursor.row, line \o current)
        IN  ensure_cursor_visible(
                bump_revision([e2 EXCEPT !.cursor.col = prev_len,
                                         !.dirty = TRUE]))
    ELSE ensure_cursor_visible(e)

delete_char_panics(e) ==
    /\ e.cursor.row < NumLines(e)
    /\ e.cursor.col < current_line_len(e)
    /\ string_remove_panics(LineAt(e, e.cursor.row),
           char_to_byte_index(LineAt(e, e.cursor.row), e.cursor.col))

\* a delete_char that removes the following line without appending it
delete_char_drop(e) ==
    IF e.cursor.row >= NumLines(e) THEN e
    ELSE IF e.cursor.col < current_line_len(e) THEN
        LET line == LineAt(e, e.cursor.row)
            byte_idx == char_to_byte_index(line, e.cursor.col)
            e1 == WithLine(e, e.cursor.row, string_remove(line, byte_idx))
        IN  ensure_cursor_visible(bump_revision([e1 EXCEPT !.dirty = TRUE]))
    ELSE IF e.cursor.row + 1 < NumLines(e) THEN
        LET e1 == [e EXCEPT !.buffer.lines = vec_remove(@, e.cursor.row + 1)]
        IN  ensure_cursor_visible(bump_revision([e1 EXCEPT !.dirty = TRUE]))
    ELSE ensure_cursor_visible(e)

delete_char(e) ==
    IF e.cursor.row >= NumLines(e) THEN e
    ELSE IF e.cursor.col < current_line_len(e) THEN
        LET line == LineAt(e, e.cursor.row)
            byte_idx == char_to_byte_index(line, e.cursor.col)
            e1 == WithLine(e, e.cursor.row, string_remove(line, byte_idx))
        IN  ensure_cursor_visible(bump_revision([e1 EXCEPT !.dirty = TRUE]))
    ELSE IF e.cursor.row + 1 < NumLines(e) THEN
        LET next == LineAt(e, e.cursor.row + 1)
            e1 == [e EXCEPT !.buffer.lines = vec_remove(@, e.cursor.row + 1)]
            e2 == WithLine(e1, e1.cursor.row, LineAt(e1, e1.cursor.row) \o next)
        IN  ensure_cursor_visible(bump_revision([e2 EXCEPT !.dirty = TRUE]))
    ELSE ensure_cursor_visible(e)


----------------------------------------------------------------------------
(* Events (crossterm::event::Event) *)

Key(code, ch, modifiers) ==
    [kind |-> "Key", code |-> code, ch |-> ch, modifiers |-> modifiers,
     width |-> 0, height |-> 0]

Resize(width, height) ==
    [kind |-> "Resize", code |-> "", ch |-> "", modifiers |-> {},
     width |-> width, height |-> height]

IsChar(ev, ch) == ev.code = "Char" /\ ev.ch = ch

----------------------------------------------------------------------------
(* Plugins: what a handler returns, with the editor it leaves behind *)

Consumed(e) == [result |-> "Consumed", editor |-> e]

Ignored(e) == [result |-> "Ignored", editor |-> e]

\* the handler panicked: the process aborts
Panicked(e) == [result |-> "Panic", editor |-> e]

\* the default Plugin::on_event and Plugin::on_command
Plugin_on_event(e, ev) == Ignored(e)

Plugin_on_command(e, cmd) == Ignored(e)

\* the mode keys without their guard on the current mode
ModePlugin_on_event_any_mode(e, ev) ==
    IF ev.kind # "Key" THEN Ignored(e)
    ELSE IF ev.code = "Esc" THEN
        Consumed([e EXCEPT !.mode = "Normal",
                           !.command_line.active = FALSE,
                           !.command_line.input = <<>>])
    ELSE IF IsChar(ev, "i") /\ e.mode # "Command" THEN
        Consumed([e EXCEPT !.mode = "Insert"])
    ELSE IF IsChar(ev, ":") /\ e.mode # "Command" THEN
        Consumed([e EXCEPT !.mode = "Command",
                           !.command_line.active = TRUE,
                           !.command_line.input = <<>>])
    ELSE Ignored(e)

\* a ModePlugin that enters Insert mode on 'i' and lets the key through
ModePlugin_on_event_passes_i(e, ev) ==
    IF ev.kind # "Key" THEN Ignored(e)
    ELSE IF ev.code = "Esc" THEN
        Consumed([e EXCEPT !.mode = "Normal",
                           !.command_line.active = FALSE,
                           !.command_line.input = <<>>])
    ELSE IF IsChar(ev, "i") /\ e.mode = "Normal" THEN
        Ignored([e EXCEPT !.mode = "Insert"])
    ELSE IF IsChar(ev, ":") /\ e.mode = "Normal" THEN
        Consumed([e EXCEPT !.mode = "Command",
                           !.command_line.active = TRUE,
                           !.command_line.input = <<>>])
    ELSE Ignored(e)

\* a ModePlugin whose Escape leaves the command line input as it is
ModePlugin_on_event_keep_input(e, ev) ==
    IF ev.kind # "Key" THEN Ignored(e)
    ELSE IF ev.code = "Esc" THEN
        Consumed([e EXCEPT !.mode = "Normal",
                           !.command_line.active = FALSE])
    ELSE IF IsChar(ev, "i") /\ e.mode = "Normal" THEN
        Consumed([e EXCEPT !.mode = "Insert"])
    ELSE IF IsChar(ev, ":") /\ e.mode = "Normal" THEN
        Consumed([e EXCEPT !.mode = "Command",
                           !.command_line.active = TRUE,
                           !.command_line.input = <<>>])
    ELSE Ignored(e)

ModePlugin_on_event(e, ev) ==
    IF ev.kind # "Key" THEN Ignored(e)
    ELSE IF ev.code = "Esc" THEN
        Consumed([e EXCEPT !.mode = "Normal",
                           !.command_line.active = FALSE,
                           !.command_line.input = <<>>])
    ELSE IF IsChar(ev, "i") /\ e.mode = "Normal" THEN
        Consumed([e EXCEPT !.mode = "Insert"])
    ELSE IF IsChar(ev, ":") /\ e.mode = "Normal" THEN
        Consumed([e EXCEPT !.mode = "Command",
                           !.command_line.active = TRUE,
                           !.command_line.input = <<>>])
    ELSE Ignored(e)

\* a CommandLinePlugin whose Enter submits the input and leaves it in place
CommandLinePlugin_on_event_keep_input(e, ev) ==
    IF e.mode # "Command" THEN Ignored(e)
    ELSE IF ev.kind # "Key" THEN Ignored(e)
    ELSE IF ev.code = "Enter" THEN
        LET cmd == trim(e.command_line.input)
            e1 == [e EXCEPT !.command_line.active = FALSE,
                            !.mode = "Normal"]
        IN  Consumed(IF cmd # <<>> THEN push_command(e1, cmd) ELSE e1)
    ELSE IF ev.code = "Backspace" THEN
        Consumed([e EXCEPT !.command_line.input =
                               SubSeq(@, 1, saturating_sub(Len(@), 1))])
    ELSE IF ev.code = "Char" THEN
        IF "CONTROL" \in ev.modifiers \/ "ALT" \in ev.modifiers THEN Ignored(e)
        ELSE Consumed([e EXCEPT !.command_line.input = Append(@, ev.ch)])
    ELSE Ignored(e)

CommandLinePlugin_on_event(e, ev) ==
    IF e.mode # "Command" THEN Ignored(e)
    ELSE IF ev.kind # "Key" THEN Ignored(e)
    ELSE IF ev.code = "Enter" THEN
        LET cmd == trim(e.command_line.input)
            e1 == [e EXCEPT !.command_line.input = <<>>,
                            !.command_line.active = FALSE,
                            !.mode = "Normal"]
        IN  Consumed(IF cmd # <<>> THEN push_command(e1, cmd) ELSE e1)
    ELSE IF ev.code = "Backspace" THEN
        Consumed([e EXCEPT !.command_line.input =
                               SubSeq(@, 1, saturating_sub(Len(@), 1))])
    ELSE IF ev.code = "Char" THEN
        IF "CONTROL" \in ev.modifiers \/ "ALT" \in ev.modifiers THEN Ignored(e)
        ELSE Consumed([e EXCEPT !.command_line.input = Append(@, ev.ch)])
    ELSE Ignored(e)

MotionPlugin_on_event(e, ev) ==
    IF e.mode # "Normal" THEN Ignored(e)
    ELSE IF ev.kind # "Key" THEN Ignored(e)
    ELSE IF "CONTROL" \in ev.modifiers THEN Ignored(e)
    ELSE IF IsChar(ev, "h") \/ ev.code = "Left" THEN Consumed(move_left(e))
    ELSE IF IsChar(ev, "l") \/ ev.code = "Right" THEN Consumed(move_right(e))
    ELSE IF IsChar(ev, "k") \/ ev.code = "Up" THEN Consumed(move_up(e))
    ELSE IF IsChar(ev, "j") \/ ev.code = "Down" THEN Consumed(move_down(e))
    ELSE IF IsChar(ev, "0") THEN Consumed(move_line_start(e))
    ELSE IF IsChar(ev, "$") THEN Consumed(move_line_end(e))
    ELSE IF IsChar(ev, "x") THEN
        IF delete_char_panics(e) THEN Panicked(e) ELSE Consumed(delete_char(e))
    ELSE Ignored(e)

RECURSIVE insert_chars(_, _, _)
\* n calls of insert_char(ch), stopping at the first one that panics
insert_chars(e, ch, n) ==
    IF n = 0 THEN Consumed(e)
    ELSE IF insert_char_panics(e, ch) THEN Panicked(e)
    ELSE insert_chars(insert_char(e, ch), ch, n - 1)

InsertPlugin_on_event(e, ev) ==
    IF e.mode # "Insert" THEN Ignored(e)
    ELSE IF ev.kind # "Key" THEN Ignored(e)
    ELSE IF "CONTROL" \in ev.modifiers \/ "ALT" \in ev.modifiers THEN Ignored(e)
    ELSE IF ev.code = "Char" THEN insert_chars(e, ev.ch, 1)
    ELSE IF ev.code = "Enter" THEN
        IF insert_newline_panics(e) THEN Panicked(e)
        ELSE Consumed(insert_newline(e))
    ELSE IF ev.code = "Backspace" THEN
        IF backspace_panics(e) THEN Panicked(e) ELSE Consumed(backspace(e))
    ELSE IF ev.code = "Delete" THEN
        IF delete_char_panics(e) THEN Panicked(e) ELSE Consumed(delete_char(e))
    ELSE IF ev.code = "Tab" THEN insert_chars(e, " ", 4)
    ELSE IF ev.code = "Left" THEN Consumed(move_left(e))
    ELSE IF ev.code = "Right" THEN Consumed(move_right(e))
    ELSE IF ev.code = "Up" THEN Consumed(move_up(e))
    ELSE IF ev.code = "Down" THEN Consumed(move_down(e))
    ELSE Ignored(e)

----------------------------------------------------------------------------
(* FileCommandPlugin and the file system *)

\* std::io::ErrorKind values a read or a write can fail with
IoErrors == {"NotFound", "PermissionDenied"}

IoOk == "Ok"

\* the file the last successful fs::read_to_string or fs::write touched
File(path, contents) == [path |-> path, contents |-> contents]

\* Editor::load_from_path when fs::read_to_string returned contents
load_from_path(e, contents) ==
    [e EXCEPT !.buffer = Buffer_from_string(contents),
              !.cursor = [row |-> 0, col |-> 0],
              !.viewport = [row_offset |-> 0, col_offset |-> 0],
              !.dirty = FALSE,
              !.revision = U64Zero]

\* save_to_path that clears dirty whatever fs::write returned
save_to_path_clears_dirty(e, d, path, io) ==
    [ok |-> io = IoOk, editor |-> [e EXCEPT !.dirty = FALSE],
     disk |-> IF io = IoOk THEN Some(File(path, Buffer_to_string(e.buffer)))
              ELSE d]

\* Editor::save_to_path: io is the result of fs::write
save_to_path(e, d, path, io) ==
    IF io = IoOk
    THEN [ok |-> TRUE, editor |-> [e EXCEPT !.dirty = FALSE],
          disk |-> Some(File(path, Buffer_to_string(e.buffer)))]
    ELSE [ok |-> FALSE, editor |-> e, disk |-> d]

\* save_to_path that records the path before it looks at the result
FileCommandPlugin_save_to_path_early(e, d, path, io) ==
    LET r == save_to_path([e EXCEPT !.file_path = Some(path)], d, path, io)
    IN  IF r.ok
        THEN [r EXCEPT !.editor = set_status(r.editor, Status("Wrote {}", path))]
        ELSE [r EXCEPT !.editor = set_status(r.editor,
                                   Status("Write failed: {}", <<io>>))]

FileCommandPlugin_save_to_path(e, d, path, io) ==
    LET r == save_to_path(e, d, path, io)
    IN  IF r.ok
        THEN [r EXCEPT !.editor = set_status([r.editor EXCEPT
                                       !.file_path = Some(path)],
                                   Status("Wrote {}", path))]
        ELSE [r EXCEPT !.editor = set_status(r.editor,
                                   Status("Write failed: {}", <<io>>))]

\* command_quit that tests force alone
command_quit_unguarded(e, force) ==
    IF ~force
    THEN set_status(e, Status("No write since last change (add ! to override)",
                              <<>>))
    ELSE [e EXCEPT !.should_quit = TRUE]

command_quit(e, force) ==
    IF e.dirty /\ ~force
    THEN set_status(e, Status("No write since last change (add ! to override)",
                              <<>>))
    ELSE [e EXCEPT !.should_quit = TRUE]

\* an on_init for which a failure other than NotFound is fatal
FileCommandPlugin_on_init_fatal(e, d, read) ==
    IF e.file_path = None THEN [editor |-> e, disk |-> d]
    ELSE LET path == e.file_path[1]
         IN  IF read.io = IoOk
             THEN [editor |-> set_status(load_from_path(e, read.contents),
                                         Status("Opened {}", path)),
                   disk |-> Some(File(path, read.contents))]
             ELSE IF read.io = "NotFound"
             THEN [editor |-> set_status(e, Status("New file {}", path)),
                   disk |-> d]
             ELSE [editor |-> [set_status(e, Status("Open failed: {}",
                                                    <<read.io>>))
                                  EXCEPT !.should_quit = TRUE],
                   disk |-> d]

\* FileCommandPlugin::on_init: read is the result of fs::read_to_string
FileCommandPlugin_on_init(e, d, read) ==
    IF e.file_path = None THEN [editor |-> e, disk |-> d]
    ELSE LET path == e.file_path[1]
         IN  IF read.io = IoOk
             THEN [editor |-> set_status(load_from_path(e, read.contents),
                                         Status("Opened {}", path)),
                   disk |-> Some(File(path, read.contents))]
             ELSE IF read.io = "NotFound"
             THEN [editor |-> set_status(e, Status("New file {}", path)),
                   disk |-> d]
             ELSE [editor |-> set_status(e, Status("Open failed: {}",
                                                   <<read.io>>)),
                   disk |-> d]

\* the target of w, wq and x: the argument, else the file identity
SavePath(e, parts) ==
    IF Len(parts) >= 2 THEN Some(parts[2]) ELSE e.file_path

\* the arm "w" of on_command
command_w(e, d, parts, io) ==
    LET path == SavePath(e, parts)
    IN  IF path # None
        THEN LET r == FileCommandPlugin_save_to_path(e, d, path[1], io)
             IN  [result |-> "Consumed", editor |-> r.editor, disk |-> r.disk]
        ELSE [result |-> "Consumed",
              editor |-> set_status(e, Status("No file name", <<>>)),
              disk |-> d]

\* the arm "wq" | "x" that quits whatever the save returned
command_wq_always_quits(e, d, parts, io) ==
    LET path == SavePath(e, parts)
    IN  IF path # None
        THEN LET r == FileCommandPlugin_save_to_path(e, d, path[1], io)
             IN  [result |-> "Consumed",
                  editor |-> [r.editor EXCEPT !.should_quit = TRUE],
                  disk |-> r.disk]
        ELSE [result |-> "Consumed",
              editor |-> set_status(e, Status("No file name", <<>>)),
              disk |-> d]

\* the arm "wq" | "x" of on_command
command_wq(e, d, parts, io) ==
    LET path == SavePath(e, parts)
    IN  IF path # None
        THEN LET r == FileCommandPlugin_save_to_path(e, d, path[1], io)
             IN  [result |-> "Consumed",
                  editor |-> IF r.ok
                             THEN [r.editor EXCEPT !.should_quit = TRUE]
                             ELSE r.editor,
                  disk |-> r.disk]
        ELSE [result |-> "Consumed",
              editor |-> set_status(e, Status("No file name", <<>>)),
              disk |-> d]

\* FileCommandPlugin::on_command: io is the result of fs::write, if called
FileCommandPlugin_on_command(e, d, cmd, io) ==
    LET trimmed == trim(cmd)
        parts == split_whitespace(trimmed)
        verb == IF parts = <<>> THEN <<>> ELSE parts[1]
    IN  IF trimmed = <<>> THEN [result |-> "Consumed", editor |-> e, disk |-> d]
        ELSE IF verb = <<"w">> THEN command_w(e, d, parts, io)
        ELSE IF verb = <<"w", "q">> \/ verb = <<"x">>
             THEN command_wq(e, d, parts, io)
        ELSE IF verb = <<"q">> THEN
            [result |-> "Consumed", editor |-> command_quit(e, FALSE),
             disk |-> d]
        ELSE IF verb = <<"q", "!">> THEN
            [result |-> "Consumed", editor |-> command_quit(e, TRUE),
             disk |-> d]
        ELSE [result |-> "Ignored", editor |-> e, disk |-> d]

----------------------------------------------------------------------------
(* Rendering: RenderContext (editor.rs) and the render plugins (plugins.rs) *)

\* a cast `as u16`
AsU16(n) == n % 65536

RECURSIVE Repeat(_, _)
\* vec![x; n] and str::repeat
Repeat(x, n) == IF n <= 0 THEN <<>> ELSE Append(Repeat(x, n - 1), x)

RECURSIVE Decimal(_)
\* the Display of an unsigned integer
Decimal(n) ==
    LET digit == <<"0", "1", "2", "3", "4", "5", "6", "7", "8", "9">>[(n % 10) + 1]
    IN  IF n < 10 THEN <<digit>> ELSE Append(Decimal(n \div 10), digit)

\* the Display of the io::Error of an ErrorKind, as the OS words it
IoErrorText(kind) ==
    IF kind = "NotFound"
    THEN <<"N", "o", " ", "s", "u", "c", "h", " ", "f", "i", "l", "e", " ",
           "o", "r", " ", "d", "i", "r", "e", "c", "t", "o", "r", "y", " ",
           "(", "o", "s", " ", "e", "r", "r", "o", "r", " ", "2", ")">>
    ELSE <<"P", "e", "r", "m", "i", "s", "s", "i", "o", "n", " ", "d", "e",
           "n", "i", "e", "d", " ", "(", "o", "s", " ", "e", "r", "r", "o",
           "r", " ", "1", "3", ")">>

\* editor.status as the String the format! calls of plugins.rs build
StatusText(status) ==
    CASE status.msg = "" -> <<>>
      [] status.msg = "Wrote {}" ->
             <<"W", "r", "o", "t", "e", " ">> \o status.arg
      [] status.msg = "Write failed: {}" ->
             <<"W", "r", "i", "t", "e", " ", "f", "a", "i", "l", "e", "d",
               ":", " ">> \o IoErrorText(status.arg[1])
      [] status.msg = "No file name" ->
             <<"N", "o", " ", "f", "i", "l", "e", " ", "n", "a", "m", "e">>
      [] status.msg = "No write since last change (add ! to override)" ->
             <<"N", "o", " ", "w", "r", "i", "t", "e", " ", "s", "i", "n",
               "c", "e", " ", "l", "a", "s", "t", " ", "c", "h", "a", "n",
               "g", "e", " ", "(", "a", "d", "d", " ", "!", " ", "t", "o",
               " ", "o", "v", "e", "r", "r", "i", "d", "e", ")">>
      [] status.msg = "Opened {}" ->
             <<"O", "p", "e", "n", "e", "d", " ">> \o status.arg
      [] status.msg = "New file {}" ->
             <<"N", "e", "w", " ", "f", "i", "l", "e", " ">> \o status.arg
      [] status.msg = "Open failed: {}" ->
             <<"O", "p", "e", "n", " ", "f", "a", "i", "l", "e", "d", ":",
               " ">> \o IoErrorText(status.arg[1])

RenderContext_new(width, height) ==
    [width |-> width,
     height |-> height,
     lines |-> Repeat(<<>>, height),
     spans |-> Repeat(<<>>, height),
     cursor |-> None]

\* set_line that keeps the text a row already holds
set_line_keep(ctx, row, text) ==
    IF row >= Len(ctx.lines) THEN ctx
    ELSE IF ctx.lines[row + 1] # <<>> THEN ctx
    ELSE [ctx EXCEPT !.lines[row + 1] = Take(text, ctx.width)]

set_line(ctx, row, text) ==
    IF row >= Len(ctx.lines) THEN ctx
    ELSE IF ctx.width = 0 THEN [ctx EXCEPT !.lines[row + 1] = <<>>]
    ELSE [ctx EXCEPT !.lines[row + 1] = Take(text, ctx.width)]

set_spans(ctx, row, spans) ==
    IF row >= Len(ctx.spans) THEN ctx
    ELSE [ctx EXCEPT !.spans[row + 1] = spans]

set_cursor(ctx, row, col) == [ctx EXCEPT !.cursor = Some(<<row, col>>)]

StyledSpan(start, len, style) == [start |-> start, len |-> len, style |-> style]

slice_line(line, col_offset, width) == Take(Skip(line, col_offset), width)

\* a format_status_line that leaves no column for the separating space
format_status_line_no_gap(left, right, width) ==
    IF width = 0 THEN <<>>
    ELSE IF Len(right) >= width THEN Take(right, width)
    ELSE LET available_left == saturating_sub(width, Len(right))
             left_trimmed == Take(left, available_left)
             padding == saturating_sub(width, Len(left_trimmed) + Len(right))
         IN  left_trimmed \o Repeat(" ", padding) \o right

format_status_line(left, right, width) ==
    IF width = 0 THEN <<>>
    ELSE IF Len(right) >= width THEN Take(right, width)
    ELSE LET available_left == saturating_sub(width, Len(right) + 1)
             left_trimmed == Take(left, available_left)
             padding == saturating_sub(width, Len(left_trimmed) + Len(right))
         IN  left_trimmed \o Repeat(" ", padding) \o right

RECURSIVE BufferRenderPlugin_rows(_, _, _)
\* for row in 0..content_height { ... }, from row on
BufferRenderPlugin_rows(e, ctx, row) ==
    IF row >= content_height(e) THEN ctx
    ELSE LET buffer_row == e.viewport.row_offset + row
             text == IF buffer_row < NumLines(e)
                     THEN slice_line(LineAt(e, buffer_row),
                                     e.viewport.col_offset, ctx.width)
                     ELSE <<"~">>
         IN  BufferRenderPlugin_rows(e, set_line(ctx, row, text), row + 1)

BufferRenderPlugin_on_render(e, ctx) == BufferRenderPlugin_rows(e, ctx, 0)

\* the text "NORMAL" | "INSERT" | "COMMAND" of a mode
mode_label(mode) ==
    CASE mode = "Normal" -> <<"N", "O", "R", "M", "A", "L">>
      [] mode = "Insert" -> <<"I", "N", "S", "E", "R", "T">>
      [] mode = "Command" -> <<"C", "O", "M", "M", "A", "N", "D">>

StatusBarPlugin_on_render(e, ctx) ==
    IF ctx.height = 0 THEN ctx
    ELSE LET name == IF e.file_path # None THEN e.file_path[1]
                     ELSE <<"[", "N", "o", " ", "N", "a", "m", "e", "]">>
             dirty == IF e.dirty THEN <<" ", "[", "+", "]">> ELSE <<>>
             left == mode_label(e.mode) \o <<" ">> \o name \o dirty
             right == IF StatusText(e.status) = <<>>
                      THEN <<"L", "n", " ">> \o Decimal(e.cursor.row + 1)
                           \o <<",", " ", "C", "o", "l", " ">>
                           \o Decimal(e.cursor.col + 1)
                      ELSE StatusText(e.status)
         IN  set_line(ctx, status_row(e),
                      format_status_line(left, right, ctx.width))

CommandLineRenderPlugin_on_render(e, ctx) ==
    IF ~e.command_line.active \/ ctx.height = 0 THEN ctx
    ELSE set_line(ctx, command_row(e), <<":">> \o e.command_line.input)

\* u16::min / usize::min
Min(a, b) == IF a < b THEN a ELSE b

\* u16::max / usize::max
Max(a, b) == IF a > b THEN a ELSE b

CursorRenderPlugin_on_render(e, ctx) ==
    IF ctx.height = 0 \/ ctx.width = 0 THEN ctx
    ELSE IF e.command_line.active THEN
        set_cursor(ctx,
                   Min(command_row(e), saturating_sub(ctx.height, 1)),
                   Min(AsU16(1 + Len(e.command_line.input)),
                       saturating_sub(ctx.width, 1)))
    ELSE set_cursor(ctx,
             Min(AsU16(saturating_sub(e.cursor.row, e.viewport.row_offset)),
                 saturating_sub(ctx.height, 1)),
             Min(AsU16(saturating_sub(e.cursor.col, e.viewport.col_offset)),
                 saturating_sub(ctx.width, 1)))

\* SyntaxHighlightPlugin::new: the fields the render pass reads and writes;
\* source is not a field of the plugin: it records the lines and the file
\* identity cached_spans was computed from
SyntaxHighlightPlugin_new ==
    [cached_spans |-> <<>>, last_revision |-> U64Max, last_path |-> None,
     source |-> [lines |-> <<>>, path |-> None]]

\* needs_rehighlight that does not look at the file identity
needs_rehighlight_same_file(hl, e) ==
    \/ e.revision # hl.last_revision
    \/ NumLines(e) # Len(hl.cached_spans)

\* needs_rehighlight that looks at the revision alone
needs_rehighlight_revision_only(hl, e) == e.revision # hl.last_revision

needs_rehighlight(hl, e) ==
    \/ e.revision # hl.last_revision
    \/ e.file_path # hl.last_path
    \/ NumLines(e) # Len(hl.cached_spans)

\* HighlightLines::highlight_line with the plain-text syntax (the paths of
\* the model have no extension): one range of the default style over the
\* whole line, none for an empty line
highlight_line(owned) ==
    IF owned = <<>> THEN <<>> ELSE <<[style |-> "Plain", text |-> owned]>>

\* the ContentStyle of a syntect Style
map_style(style) == style

RECURSIVE range_len(_)
\* the chars of a range before its first line break
range_len(text) ==
    IF text = <<>> \/ Head(text) = "\n" \/ Head(text) = "\r" THEN 0
    ELSE 1 + range_len(Tail(text))

RECURSIVE spans_from_ranges_loop(_, _, _, _)
\* for (style, text) in ranges { ... }, from the k-th range on
spans_from_ranges_loop(ranges, k, spans, col) ==
    IF k > Len(ranges) THEN spans
    ELSE LET len == range_len(ranges[k].text)
             content_style == map_style(ranges[k].style)
         IN  IF len = 0 THEN spans_from_ranges_loop(ranges, k + 1, spans, col)
             ELSE IF /\ spans # <<>>
                     /\ spans[Len(spans)].style = content_style
                     /\ spans[Len(spans)].start + spans[Len(spans)].len = col
             THEN spans_from_ranges_loop(ranges, k + 1,
                      [spans EXCEPT ![Len(spans)].len = @ + len], col + len)
             ELSE spans_from_ranges_loop(ranges, k + 1,
                      Append(spans, StyledSpan(col, len, content_style)),
                      col + len)

spans_from_ranges(ranges) == spans_from_ranges_loop(ranges, 1, <<>>, 0)

RECURSIVE rehighlight_lines(_, _, _)
\* for (idx, line) in editor.buffer.lines.iter().enumerate() { ... }
rehighlight_lines(e, idx, spans) ==
    IF idx >= NumLines(e) THEN spans
    ELSE LET owned == IF idx + 1 < NumLines(e)
                      THEN Append(LineAt(e, idx), "\n") ELSE LineAt(e, idx)
         IN  rehighlight_lines(e, idx + 1,
                 Append(spans, spans_from_ranges(highlight_line(owned))))

rehighlight(hl, e) ==
    [cached_spans |-> rehighlight_lines(e, 0, <<>>),
     last_revision |-> e.revision,
     last_path |-> e.file_path,
     source |-> [lines |-> e.buffer.lines, path |-> e.file_path]]

RECURSIVE slice_spans_loop(_, _, _, _, _)
\* for span in spans { ... }, from the k-th span on
slice_spans_loop(spans, col_offset, end, k, visible) ==
    IF k > Len(spans) THEN visible
    ELSE LET span_start == spans[k].start
             span_end == spans[k].start + spans[k].len
             start == Max(span_start, col_offset) - col_offset
             stop == Min(span_end, end) - col_offset
             len == saturating_sub(stop, start)
         IN  IF span_end <= col_offset \/ span_start >= end \/ len = 0
             THEN slice_spans_loop(spans, col_offset, end, k + 1, visible)
             ELSE slice_spans_loop(spans, col_offset, end, k + 1,
                      Append(visible, StyledSpan(start, len, spans[k].style)))

\* a slice_spans that clips the spans and does not rebase them
slice_spans_absolute(spans, col_offset, width) ==
    IF width = 0 THEN <<>>
    ELSE LET visible == slice_spans_loop(spans, col_offset,
                                         col_offset + width, 1, <<>>)
         IN  [k \in 1..Len(visible) |->
                 [visible[k] EXCEPT !.start = @ + col_offset]]

slice_spans(spans, col_offset, width) ==
    IF width = 0 THEN <<>>
    ELSE slice_spans_loop(spans, col_offset, col_offset + width, 1, <<>>)

RECURSIVE SyntaxHighlightPlugin_rows(_, _, _, _)
\* for row in 0..content_height { ... }, from row on
SyntaxHighlightPlugin_rows(hl, e, ctx, row) ==
    IF row >= content_height(e) THEN ctx
    ELSE LET buffer_row == e.viewport.row_offset + row
         IN  IF buffer_row >= Len(hl.cached_spans)
             THEN SyntaxHighlightPlugin_rows(hl, e, ctx, row + 1)
             ELSE SyntaxHighlightPlugin_rows(hl, e,
                      set_spans(ctx, row,
                          slice_spans(hl.cached_spans[buffer_row + 1],
                                      e.viewport.col_offset, ctx.width)),
                      row + 1)

\* SyntaxHighlightPlugin::on_render: the plugin and the context it leaves,
\* and whether it called rehighlight
SyntaxHighlightPlugin_on_render(hl, e, ctx) ==
    LET again == needs_rehighlight(hl, e)
        hl1 == IF again THEN rehighlight(hl, e) ELSE hl
    IN  [syntax_plugin |-> hl1,
         ctx |-> SyntaxHighlightPlugin_rows(hl1, e, ctx, 0),
         rehighlighted |-> again]

\* the default Plugin::on_render
Plugin_on_render(e, ctx) == ctx

----------------------------------------------------------------------------
(* The main loop (main.rs) *)

\* the plugins in registration order
Plugins ==
    <<"FileCommandPlugin", "ModePlugin", "CommandLinePlugin", "MotionPlugin",
      "InsertPlugin", "BufferRenderPlugin", "SyntaxHighlightPlugin",
      "StatusBarPlugin", "CommandLineRenderPlugin", "CursorRenderPlugin">>

\* plugin.on_event of the named plugin
on_event(name, e, ev) ==
    CASE name = "ModePlugin" -> ModePlugin_on_event(e, ev)
      [] name = "CommandLinePlugin" -> CommandLinePlugin_on_event(e, ev)
      [] name = "MotionPlugin" -> MotionPlugin_on_event(e, ev)
      [] name = "InsertPlugin" -> InsertPlugin_on_event(e, ev)
      [] OTHER -> Plugin_on_event(e, ev)

\* plugin.on_command of the named plugin
on_command(name, e, d, cmd, io) ==
    IF name = "FileCommandPlugin" THEN FileCommandPlugin_on_command(e, d, cmd, io)
    ELSE [result |-> Plugin_on_command(e, cmd).result,
          editor |-> Plugin_on_command(e, cmd).editor, disk |-> d]

\* the loop without its break: every plugin is called
breaks_never(result) == FALSE

\* if plugin.on_...(..) == EventResult::Consumed { break; }
breaks(result) == result = "Consumed"

\* one recorded handler call: item is 0 for the event, k for the k-th command
Call(hook, item, i, result) ==
    [hook |-> hook, item |-> item, plugin |-> i, result |-> result]

RECURSIVE dispatch_event(_, _, _, _)
\* for plugin in plugins.iter_mut() { on_event ... }, from plugin i on
dispatch_event(e, ev, i, log) ==
    IF i > Len(Plugins) THEN [editor |-> e, calls |-> log, panicked |-> FALSE]
    ELSE LET r == on_event(Plugins[i], e, ev)
             log1 == Append(log, Call("on_event", 0, i, r.result))
         IN  IF r.result = "Panic"
             THEN [editor |-> r.editor, calls |-> log1, panicked |-> TRUE]
             ELSE IF breaks(r.result)
             THEN [editor |-> r.editor, calls |-> log1, panicked |-> FALSE]
             ELSE dispatch_event(r.editor, ev, i + 1, log1)

RECURSIVE dispatch_command(_, _, _, _, _, _, _)
\* for plugin in plugins.iter_mut() { on_command ... }, from plugin i on
dispatch_command(e, d, cmd, io, k, i, log) ==
    IF i > Len(Plugins) THEN [editor |-> e, disk |-> d, calls |-> log]
    ELSE LET r == on_command(Plugins[i], e, d, cmd, io)
             log1 == Append(log, Call("on_command", k, i, r.result))
         IN  IF breaks(r.result)
             THEN [editor |-> r.editor, disk |-> r.disk, calls |-> log1]
             ELSE dispatch_command(r.editor, r.disk, cmd, io, k, i + 1, log1)

RECURSIVE drain_commands(_, _, _, _, _, _)
\* for command in editor.take_commands() { ... }, from the k-th command on
drain_commands(e, d, cmds, ios, k, log) ==
    IF k > Len(cmds) THEN [editor |-> e, disk |-> d, calls |-> log]
    ELSE LET r == dispatch_command(e, d, cmds[k], ios[k], k, 1, log)
         IN  drain_commands(r.editor, r.disk, cmds, ios, k + 1, r.calls)

\* Editor::take_commands: <<the editor left behind, the commands taken>>
take_commands(e) == <<[e EXCEPT !.command_queue = <<>>], e.command_queue>>

\* plugin.on_render of the named plugin
on_render(name, hl, e, c) ==
    CASE name = "BufferRenderPlugin" ->
             [syntax_plugin |-> hl, ctx |-> BufferRenderPlugin_on_render(e, c),
              rehighlighted |-> FALSE]
      [] name = "SyntaxHighlightPlugin" ->
             SyntaxHighlightPlugin_on_render(hl, e, c)
      [] name = "StatusBarPlugin" ->
             [syntax_plugin |-> hl, ctx |-> StatusBarPlugin_on_render(e, c),
              rehighlighted |-> FALSE]
      [] name = "CommandLineRenderPlugin" ->
             [syntax_plugin |-> hl,
              ctx |-> CommandLineRenderPlugin_on_render(e, c),
              rehighlighted |-> FALSE]
      [] name = "CursorRenderPlugin" ->
             [syntax_plugin |-> hl, ctx |-> CursorRenderPlugin_on_render(e, c),
              rehighlighted |-> FALSE]
      [] OTHER ->
             [syntax_plugin |-> hl, ctx |-> Plugin_on_render(e, c),
              rehighlighted |-> FALSE]

RECURSIVE render_plugins(_, _, _, _, _)
\* for plugin in plugins.iter_mut() { plugin.on_render(editor, &mut ctx); },
\* from plugin i on; the log also records the calls of rehighlight
render_plugins(e, hl, c, i, log) ==
    IF i > Len(Plugins) THEN [syntax_plugin |-> hl, ctx |-> c, calls |-> log]
    ELSE LET r == on_render(Plugins[i], hl, e, c)
             log1 == IF r.rehighlighted
                     THEN Append(log, Call("rehighlight", 0, i, "()"))
                     ELSE log
         IN  render_plugins(e, r.syntax_plugin, r.ctx, i + 1,
                            Append(log1, Call("on_render", 0, i, "()")))

\* render: the context is built anew and handed to every plugin
render(e, hl) ==
    render_plugins(e, hl, RenderContext_new(e.screen_width, e.screen_height),
                   1, <<>>)

----------------------------------------------------------------------------
(* The environment: the events, terminal sizes and files it offers *)

\* the modifier sets tried on a key: none, Ctrl, Alt
ModifierSets == {{}, {"CONTROL"}, {"ALT"}}

SpecialKeys ==
    {"Esc", "Enter", "Backspace", "Delete", "Tab", "Left", "Right", "Up",
     "Down", "Home"}

\* the keys that are also pressed with Ctrl and with Alt
ModifiedChars == {"i", ":"}

ModifiedKeys == {"Enter", "Left"}

KeyEvents(chars) ==
    {Key("Char", ch, {}) : ch \in chars}
    \cup {Key(code, "", {}) : code \in SpecialKeys}
    \cup {Key("Char", ch, m) : ch \in chars \cap ModifiedChars,
                               m \in ModifierSets}
    \cup {Key(code, "", m) : code \in ModifiedKeys, m \in ModifierSets}

ResizeEvents(sizes) == {Resize(sz[1], sz[2]) : sz \in sizes}

RECURSIVE Strings(_, _)
\* the strings over chars of at most n chars
Strings(chars, n) ==
    IF n = 0 THEN {<<>>}
    ELSE Strings(chars, n - 1)
         \cup {Append(s, ch) : s \in Strings(chars, n - 1), ch \in chars}

\* the results of fs::read_to_string
ReadResults(contents) ==
    {[io |-> IoOk, contents |-> c] : c \in contents}
    \cup {[io |-> err, contents |-> <<>>] : err \in IoErrors}

\* the results of fs::write
WriteResults == {IoOk, "PermissionDenied"}

\* s is a prefix of t
IsPrefix(s, t) == Len(s) <= Len(t) /\ SubSeq(t, 1, Len(s)) = s

\* the revision two edits before it wraps to 0
U64Late == <<Limb - 1, Limb - 1, Limb - 1, Limb - 2>>

\* ev keeps the editor within the bounds of env: the revision budget (with
\* late, also the edits that take the revision from U64Late to 0), the
\* chars typed into the text, and the command line holds the beginning of
\* one of the commands of env
WithinBounds(env, e, ev) ==
    LET r == dispatch_event(e, ev, 1, <<>>)
        lines == r.editor.buffer.lines
    IN  /\ r.editor.revision # e.revision
            => /\ \/ U64Less(e.revision, U64(env.revision))
                  \/ env.late /\ ~U64Less(e.revision, U64Late)
               /\ \A i \in 1..Len(lines) : \A k \in 1..Len(lines[i]) :
                      lines[i][k] \in env.text
        /\ \E cmd \in env.commands : IsPrefix(r.editor.command_line.input, cmd)

\* with scripts, the environment presses the keys of one of them, in order;
\* keys are the events read so far
Scripted(env, ev) ==
    env.scripts # {} =>
        \E script \in env.scripts : IsPrefix(Append(keys, ev), script)

----------------------------------------------------------------------------
(* Actions *)

\* main.rs 58-60: on_init of every plugin, in order
PluginsInit(env) ==
    /\ pc = "init"
    /\ \E read \in ReadResults(env.files) :
           LET r == FileCommandPlugin_on_init(editor, disk, read)
           IN  /\ editor' = r.editor
               /\ disk' = r.disk
    /\ pc' = "render"
    /\ UNCHANGED <<calls, syntax_plugin, frame, render_calls, keys>>

\* main.rs 65-74: the event ev is read, a resize is applied, and the event
\* is dispatched
ReadEvent(ev) ==
    /\ pc = "read"
    /\ LET e0 == IF ev.kind = "Resize"
                 THEN set_screen_size(editor, ev.width, ev.height)
                 ELSE editor
           r == dispatch_event(e0, ev, 1, <<>>)
       IN  /\ editor' = r.editor
           /\ calls' = r.calls
           /\ pc' = IF r.panicked THEN "panicked" ELSE "drain"
    /\ UNCHANGED <<disk, syntax_plugin, frame, render_calls>>

\* main.rs 65-74, for the events env offers
DispatchEvent(env) ==
    /\ pc = "read"
    /\ \E ev \in KeyEvents(env.chars) \cup ResizeEvents(env.sizes) :
           /\ WithinBounds(env, editor, ev)
           /\ Scripted(env, ev)
           /\ ReadEvent(ev)
           /\ keys' = IF env.scripts = {} THEN keys ELSE Append(keys, ev)

\* main.rs 76-82: the queued commands are taken and each is dispatched;
\* ios[k] is the result of the fs::write of the k-th command, if it writes
Drain(ios) ==
    /\ pc = "drain"
    /\ LET taken == take_commands(editor)
           r == drain_commands(taken[1], disk, taken[2], ios, 1, calls)
       IN  /\ editor' = r.editor
           /\ disk' = r.disk
           /\ calls' = r.calls
    /\ pc' = "quit_check"
    /\ UNCHANGED <<syntax_plugin, frame, render_calls, keys>>

\* main.rs 76-82, for every result of the writes
DrainCommands ==
    /\ pc = "drain"
    /\ \E ios \in [1..Len(editor.command_queue) -> WriteResults] : Drain(ios)

\* the loop without the break on should_quit
after_quit_check_no_break(e) == "render"

\* where the loop goes after the check of should_quit
after_quit_check(e) == IF e.should_quit THEN "exited" ELSE "render"

\* main.rs 84-86: if editor.should_quit { break; }
QuitCheck ==
    /\ pc = "quit_check"
    /\ pc' = after_quit_check(editor)
    /\ calls' = <<>>
    /\ UNCHANGED <<editor, disk, syntax_plugin, frame, render_calls, keys>>

\* main.rs 62, 88: one render pass; frame is the context it draws on the
\* terminal
Render ==
    /\ pc = "render"
    /\ LET r == render(editor, syntax_plugin)
       IN  /\ frame' = Some(r.ctx)
           /\ syntax_plugin' = r.syntax_plugin
           /\ render_calls' = r.calls
    /\ pc' = "read"
    /\ UNCHANGED <<editor, calls, disk, keys>>

----------------------------------------------------------------------------
(* The operations of the editor applied one at a time *)

\* the chars handed to insert_char
OpChars == {"i", EAcute, "\n"}

\* the keys that change the mode
ModeKeys == {Key("Esc", "", {}), Key("Char", "i", {}), Key("Char", ":", {})}

\* the sizes handed to set_screen_size
OpSizes == {<<MaxWidth, MaxHeight>>, <<0, 0>>}

\* e stays within the bounds of env: the lines and their lengths, and the
\* revisions env allows
OpsWithin(env, e) ==
    /\ NumLines(e) <= MaxLines
    /\ \A i \in 1..NumLines(e) : Len(e.buffer.lines[i]) <= MaxLineLen
    /\ e.revision \in env.revisions

\* one operation on the editor: it panics, or it leaves e1
Op(env, e1, panics) ==
    /\ pc = "api"
    /\ IF panics THEN pc' = "panicked" /\ UNCHANGED editor
       ELSE OpsWithin(env, e1) /\ editor' = e1 /\ pc' = "api"
    /\ UNCHANGED <<calls, disk, syntax_plugin, frame, render_calls, keys>>

Op_insert_char(env) ==
    \E ch \in env.chars :
        Op(env, insert_char(editor, ch), insert_char_panics(editor, ch))

Op_insert_newline(env) ==
    Op(env, insert_newline(editor), insert_newline_panics(editor))

Op_backspace(env) == Op(env, backspace(editor), backspace_panics(editor))

Op_delete_char(env) == Op(env, delete_char(editor), delete_char_panics(editor))

Op_clamp_cursor(env) == Op(env, clamp_cursor(editor), FALSE)

Op_ensure_cursor_visible(env) == Op(env, ensure_cursor_visible(editor), FALSE)

Op_move(env) ==
    \/ Op(env, move_left(editor), FALSE)
    \/ Op(env, move_right(editor), FALSE)
    \/ Op(env, move_up(editor), FALSE)
    \/ Op(env, move_down(editor), FALSE)
    \/ Op(env, move_line_start(editor), FALSE)
    \/ Op(env, move_line_end(editor), FALSE)

Op_set_screen_size(env) ==
    \E sz \in OpSizes : Op(env, set_screen_size(editor, sz[1], sz[2]), FALSE)

Op_mode(env) ==
    \E ev \in ModeKeys :
        Op(env, ModePlugin_on_event(editor, ev).editor, FALSE)

\* Editor::save_to_path to the file identity, for every result of the write
Op_save ==
    /\ pc = "api"
    /\ editor.file_path # None
    /\ \E io \in WriteResults :
           LET r == save_to_path(editor, disk, editor.file_path[1], io)
           IN  editor' = r.editor /\ disk' = r.disk
    /\ UNCHANGED <<pc, calls, syntax_plugin, frame, render_calls, keys>>

\* Editor::load_from_path of the file identity, when the file is there; as
\* in on_init, the editor is loaded before it is edited
Op_load ==
    /\ pc = "api"
    /\ disk # None
    /\ editor.revision = U64Zero
    /\ ~editor.dirty
    /\ editor' = load_from_path(editor, disk[1].contents)
    /\ UNCHANGED <<pc, calls, disk, syntax_plugin, frame, render_calls, keys>>

\* one render pass on the editor as it is
Op_render ==
    /\ pc = "api"
    /\ LET r == render(editor, syntax_plugin)
       IN  /\ frame' = Some(r.ctx)
           /\ syntax_plugin' = r.syntax_plugin
           /\ render_calls' = r.calls
    /\ UNCHANGED <<editor, pc, calls, disk, keys>>

\* the first MaxOps edits of an editor, with a char of one byte and one of
\* two
OpsEnv == [revisions |-> {U64(k) : k \in 0..MaxOps}, chars |-> {"i", EAcute}]

\* the edits of an editor that was loaded or not, one more than MaxOps
ApiEnv == [revisions |-> {U64(k) : k \in 0..(MaxOps + 1)}, chars |-> OpChars]

\* the edits next to the wrap of the revision and next to its start
RevEnv == [revisions |-> {U64Max, U64Zero, U64(1)}, chars |-> {"i"}]

\* the lines of the buffers the operations start from
OpLines == {<<>>, <<"i">>, <<EAcute>>, <<"i", EAcute>>}

\* the editor in a given state, with no file read or written yet
InitOp(e) ==
    /\ editor = e
    /\ pc = "api"
    /\ calls = <<>>
    /\ disk = None
    /\ syntax_plugin = SyntaxHighlightPlugin_new
    /\ frame = None
    /\ render_calls = <<>>
    /\ keys = <<>>

\* one call of a function of the render plugins: its arguments and result
PureCall(name, args, result) ==
    [hook |-> name, args |-> args, result |-> result]

\* fn format_status_line, called once, on every left and right text and
\* every width
Op_format_status_line ==
    /\ pc = "api"
    /\ render_calls = <<>>
    /\ \E left \in Strings({"a", " "}, MaxText),
          right \in Strings({"a", " "}, MaxText),
          width \in 0..(2 * MaxText + 2) :
           render_calls' =
               <<PureCall("format_status_line", <<left, right, width>>,
                          format_status_line(left, right, width))>>
    /\ UNCHANGED <<editor, pc, calls, disk, syntax_plugin, frame, keys>>

\* spans is ordered by start and no two of its spans overlap
OrderedSpans(spans) ==
    \A k \in 1..(Len(spans) - 1) :
        spans[k].start + spans[k].len <= spans[k + 1].start

\* the spans a line can have; the style of a span tells which one it was
SpanLists ==
    LET Lists == UNION {[1..n -> (0..MaxSpan) \X (0..MaxSpan)] :
                            n \in 0..MaxSpans}
        AsSpans(l) == [k \in 1..Len(l) |-> StyledSpan(l[k][1], l[k][2], k)]
    IN  {AsSpans(l) : l \in {m \in Lists : OrderedSpans(AsSpans(m))}}

\* SyntaxHighlightPlugin::slice_spans, called once, on every span list,
\* offset and width
Op_slice_spans ==
    /\ pc = "api"
    /\ render_calls = <<>>
    /\ \E spans \in SpanLists, col_offset \in 0..(MaxSpan + 1),
          width \in 0..(MaxSpan + 1) :
           render_calls' =
               <<PureCall("slice_spans", <<spans, col_offset, width>>,
                          slice_spans(spans, col_offset, width))>>
    /\ UNCHANGED <<editor, pc, calls, disk, syntax_plugin, frame, keys>>

\* the editor as constructed, before any call
InitPure == InitOp(Editor_new(MaxWidth, MaxHeight, None))

NextPure ==
    \/ Op_format_status_line
    \/ Op_slice_spans


\* a new editor and a file of any content
InitApi ==
    /\ editor = Editor_new(MaxWidth, MaxHeight, Some(<<"x">>))
    /\ pc = "api"
    /\ calls = <<>>
    /\ disk \in {Some(File(<<"x">>, s)) :
                     s \in Strings({"i", "\n"}, MaxContentLen)}
    /\ syntax_plugin = SyntaxHighlightPlugin_new
    /\ frame = None
    /\ render_calls = <<>>
    /\ keys = <<>>

\* any buffer of fewer than MaxLines lines and any cursor in it or past its
\* end
InitOps ==
    \E lines \in Strings(OpLines, MaxLines - 1) \ {<<>>},
       row \in 0..MaxLines, col \in 0..MaxLineLen :
        InitOp([Editor_new(MaxWidth, MaxHeight, Some(<<"x">>)) EXCEPT
                    !.buffer.lines = lines,
                    !.cursor = [row |-> row, col |-> col]])

\* a new editor whose revision is the first or the last of u64
InitRev ==
    \E rev \in {U64Zero, U64Max} :
        InitOp([Editor_new(MaxWidth, MaxHeight, Some(<<"x">>)) EXCEPT
                    !.revision = rev])

\* any cursor, any viewport and any size of the screen, also none at all
InitView ==
    \E row \in 0..MaxHeight, col \in 0..MaxHeight,
       row_offset \in 0..MaxHeight, col_offset \in 0..MaxHeight,
       width \in 0..(MaxWidth + 1), height \in 0..MaxHeight,
       active \in BOOLEAN :
        InitOp([Editor_new(width, height, None) EXCEPT
                    !.cursor = [row |-> row, col |-> col],
                    !.viewport = [row_offset |-> row_offset,
                                  col_offset |-> col_offset],
                    !.mode = IF active THEN "Command" ELSE "Normal",
                    !.command_line.active = active])

NextApi ==
    \/ Op_insert_char(ApiEnv)
    \/ Op_insert_newline(ApiEnv)
    \/ Op_backspace(ApiEnv)
    \/ Op_delete_char(ApiEnv)
    \/ Op_save
    \/ Op_load

NextOps ==
    \/ Op_insert_char(OpsEnv)
    \/ Op_insert_newline(OpsEnv)
    \/ Op_backspace(OpsEnv)
    \/ Op_delete_char(OpsEnv)
    \/ Op_clamp_cursor(OpsEnv)
    \/ Op_ensure_cursor_visible(OpsEnv)
    \/ Op_move(OpsEnv)

NextRev ==
    \/ Op_insert_char(RevEnv)
    \/ Op_insert_newline(RevEnv)
    \/ Op_backspace(RevEnv)
    \/ Op_delete_char(RevEnv)
    \/ Op_move(RevEnv)
    \/ Op_set_screen_size(RevEnv)
    \/ Op_mode(RevEnv)
    \/ Op_save
    \/ Op_render

NextView ==
    \/ Op_ensure_cursor_visible(OpsEnv)
    \/ Op_move(OpsEnv)
    \/ Op_mode(OpsEnv)

----------------------------------------------------------------------------
(* Specifications *)

\* the chars typed while commands are tried out
CommandChars == {"i", ":", "w", "q", "x", "!", " "}

\* the chars typed while the buffer is edited: one and two bytes wide
EditChars == {"i", ":", "x", EAcute}

\* the ex-commands typed: every verb, with and without a path, an unknown
\* verb and a blank command
Commands ==
    {<<"w">>, <<"w", "q">>, <<"x">>, <<"q">>, <<"q", "!">>,
     <<"w", " ", "w">>, <<"x", " ", "w">>, <<"i", ":">>, <<" ">>}

EditCommands == {<<"w">>}

\* the terminal size
Sizes == {<<MaxWidth, MaxHeight>>}

\* the file identities given on the command line
StartPaths == {None, Some(<<"x">>)}

\* many commands, few edits, and the file named is empty or unreadable
CommandEnv ==
    [revision |-> MaxRevision, commands |-> Commands, chars |-> CommandChars,
     text |-> {"i"}, sizes |-> Sizes, paths |-> StartPaths,
     files |-> {<<>>}, scripts |-> {}, late |-> FALSE]

\* many edits, few commands
EditEnv ==
    [revision |-> EditRevision, commands |-> EditCommands,
     chars |-> EditChars, text |-> {"i", EAcute}, sizes |-> Sizes,
     paths |-> {Some(<<"x">>)},
     files |-> Strings({EAcute, "\n"}, MaxFileLen), scripts |-> {}, late |-> FALSE]

\* the sizes the terminal takes while frames are compared: one row of
\* RenderWidth columns, and MaxHeight rows of MaxWidth columns
RenderSizes == {<<RenderWidth, 1>>, <<MaxWidth, MaxHeight>>}

\* resizes, one command, few edits
RenderEnv ==
    [revision |-> MaxRevision, commands |-> {<<"q">>},
     chars |-> {"i", ":", "q"}, text |-> {"i"}, sizes |-> RenderSizes,
     paths |-> {None}, files |-> {<<>>}, scripts |-> {}, late |-> FALSE]

\* the chars typed into the buffer by a script: a mode key, a two-byte char
TypeChars == {"i", ":", EAcute}

RECURSIVE CharKeys(_)
\* the key events that type the chars of s
CharKeys(s) ==
    IF s = <<>> THEN <<>> ELSE <<Key("Char", Head(s), {})>> \o CharKeys(Tail(s))

\* 'i', the chars of cs, Escape, ':', 'w', Enter
WriteScript(cs) ==
    CharKeys(<<"i">>) \o CharKeys(cs) \o <<Key("Esc", "", {})>>
        \o CharKeys(<<":", "w">>) \o <<Key("Enter", "", {})>>

\* the same, followed by ':', 'q', '!', Enter
QuitScript(cs) ==
    WriteScript(cs) \o CharKeys(<<":", "q", "!">>) \o <<Key("Enter", "", {})>>

\* the keys of tests/e2e.rs insert_and_write, for every text of at most
\* MaxTyped chars, on a file that is empty, missing or unreadable
TypeEnv ==
    [revision |-> MaxTyped, commands |-> {<<"w">>, <<"q", "!">>},
     chars |-> TypeChars \cup {"w", "q", "!"}, text |-> TypeChars,
     sizes |-> Sizes, paths |-> {Some(<<"x">>)}, files |-> {<<>>},
     scripts |-> {QuitScript(cs) : cs \in Strings(TypeChars, MaxTyped)},
     late |-> FALSE]

\* no edits: a file of every content, or none, is loaded and looked at
LoadEnv ==
    [revision |-> 0, commands |-> {<<"q">>}, chars |-> {":", "q"},
     text |-> {}, sizes |-> Sizes, paths |-> StartPaths,
     files |-> Strings({"i", "\n"}, MaxContentLen), scripts |-> {}, late |-> FALSE]

\* edits and writes that rename the file, from the start and across the
\* wrap of the revision
CacheEnv ==
    [revision |-> 0, commands |-> {<<"w", " ", "w">>},
     chars |-> {"i", ":", "w", " "}, text |-> {"i"}, sizes |-> Sizes,
     paths |-> StartPaths, files |-> {<<>>}, scripts |-> {}, late |-> TRUE]

\* main.rs 40-43: the editor as constructed
Init(env) ==
    /\ \E sz \in env.sizes, path \in env.paths :
           editor = Editor_new(sz[1], sz[2], path)
    /\ pc = "init"
    /\ calls = <<>>
    /\ disk = None
    /\ syntax_plugin = SyntaxHighlightPlugin_new
    /\ frame = None
    /\ render_calls = <<>>
    /\ keys = <<>>

\* the loop after 2^64 - 2 edits that left the buffer empty: the last frame
\* was drawn from this editor
InitLate ==
    LET e == [Editor_new(MaxWidth, MaxHeight, Some(<<"x">>)) EXCEPT
                  !.revision = U64Late, !.dirty = TRUE]
        r == render(e, SyntaxHighlightPlugin_new)
    IN  /\ editor = e
        /\ pc = "read"
        /\ calls = <<>>
        /\ disk = None
        /\ syntax_plugin = r.syntax_plugin
        /\ frame = Some(r.ctx)
        /\ render_calls = r.calls
        /\ keys = <<>>

Next(env) ==
    \/ PluginsInit(env)
    \/ DispatchEvent(env)
    \/ DrainCommands
    \/ QuitCheck
    \/ Render

NextCommand == Next(CommandEnv)

NextEdit == Next(EditEnv)

NextRender == Next(RenderEnv)

NextType == Next(TypeEnv)

NextLoad == Next(LoadEnv)

NextCache == Next(CacheEnv)

Spec == Init(CommandEnv) /\ [][NextCommand]_vars

SpecEdit == Init(EditEnv) /\ [][NextEdit]_vars

SpecRender == Init(RenderEnv) /\ [][NextRender]_vars

SpecType == Init(TypeEnv) /\ [][NextType]_vars

SpecLoad == Init(LoadEnv) /\ [][NextLoad]_vars

SpecCache == (Init(CacheEnv) \/ InitLate) /\ [][NextCache]_vars

SpecApi == InitApi /\ [][NextApi]_vars

SpecOps == InitOps /\ [][NextOps]_vars

SpecRev == InitRev /\ [][NextRev]_vars

SpecView == InitView /\ [][NextView]_vars

SpecPure == InitPure /\ [][NextPure]_vars


----------------------------------------------------------------------------
(* Properties *)

\* every event tried on a state where the loop reads one
AllEvents == KeyEvents(CommandChars \cup EditChars) \cup ResizeEvents(Sizes)

\* the results of the writes of the commands that wait in the queue
QueuedWrites == [1..Len(editor.command_queue) -> WriteResults]

\* the queue holds one command, and verb is its first token
OneCommand(verb) ==
    /\ Len(editor.command_queue) = 1
    /\ split_whitespace(editor.command_queue[1])[1] = verb

\* the tokens of the one queued command
QueuedParts == split_whitespace(editor.command_queue[1])

\* the path w, wq and x are to write: the argument, else the file identity
Target ==
    IF Len(QueuedParts) >= 2 THEN Some(QueuedParts[2]) ELSE editor.file_path

\* the calls of one hook on one item (the event, or the k-th command)
SameItem(a, b) == a.hook = b.hook /\ a.item = b.item

HasCall(call) == \E k \in 1..Len(calls) : calls[k] = call

\* C1: for every event and every queued command the handlers are called in
\* registration order from the first one, every handler called before
\* another has returned Ignored, so nothing is called after a Consumed; and
\* a handler that returns Ignored leaves the editor as it was, so at most
\* one handler acts
C1_DispatchShortCircuit ==
    /\ \A k \in 1..Len(calls) :
           IF calls[k].plugin = 1
           THEN k = 1 \/ ~SameItem(calls[k - 1], calls[k])
           ELSE /\ calls[k].plugin \in 2..Len(Plugins)
                /\ k > 1
                /\ SameItem(calls[k - 1], calls[k])
                /\ calls[k - 1].plugin = calls[k].plugin - 1
                /\ calls[k - 1].result = "Ignored"
    /\ pc = "read" =>
           \A ev \in AllEvents : \A i \in 1..Len(Plugins) :
               on_event(Plugins[i], editor, ev).result = "Ignored"
                   => on_event(Plugins[i], editor, ev).editor = editor
    /\ pc = "drain" =>
           \A k \in 1..Len(editor.command_queue) : \A io \in WriteResults :
               \A i \in 1..Len(Plugins) :
                   LET r == on_command(Plugins[i], editor, disk,
                                       editor.command_queue[k], io)
                   IN  r.result = "Ignored"
                           => r.editor = editor /\ r.disk = disk

\* Enter submitted a command: CommandLinePlugin consumed the event after two
\* handlers ignored it, and FileCommandPlugin consumed the command
C1_Witness ==
    /\ pc = "quit_check"
    /\ calls = <<Call("on_event", 0, 1, "Ignored"),
                 Call("on_event", 0, 2, "Ignored"),
                 Call("on_event", 0, 3, "Consumed"),
                 Call("on_command", 1, 1, "Consumed")>>

\* C2: no sequence of input events aborts the process: every offset used to
\* insert into, split or remove from a line is a valid position of the line
C2_NeverAborts == pc # "panicked"

\* C3: the cursor row is below the number of lines and the cursor column is
\* at most the number of characters of the line at the cursor row
C3_CursorInvariant ==
    /\ editor.cursor.row < NumLines(editor)
    /\ editor.cursor.col <= Len(LineAt(editor, editor.cursor.row))

\* C4: the buffer holds at least one line in every reachable state
C4_BufferNonEmpty == NumLines(editor) >= 1

\* a file of two lines was loaded, and the one edit since then merged them
C4_Witness ==
    /\ disk = Some(File(<<"x">>, <<"\n">>))
    /\ editor.revision = U64(1)
    /\ NumLines(editor) = 1

\* the mode the claim gives after event ev read in mode m
ExpectedMode(ev, m) ==
    IF ev.kind = "Key" /\ ev.code = "Esc" THEN "Normal"
    ELSE IF ev.kind = "Key" /\ IsChar(ev, "i") /\ m = "Normal" THEN "Insert"
    ELSE IF ev.kind = "Key" /\ IsChar(ev, ":") /\ m = "Normal" THEN "Command"
    ELSE IF ev.kind = "Key" /\ ev.code = "Enter" /\ m = "Command" THEN "Normal"
    ELSE m

\* the editor after event ev is read and dispatched in the current state
AfterEvent(ev) ==
    dispatch_event(IF ev.kind = "Resize"
                   THEN set_screen_size(editor, ev.width, ev.height)
                   ELSE editor, ev, 1, <<>>).editor

\* C5: whatever event is read, the mode after its dispatch is the one the
\* transition relation gives (Escape -> Normal, 'i' in Normal -> Insert,
\* ':' in Normal -> Command, Enter in Command -> Normal, else unchanged),
\* and no other step of the loop changes the mode
C5_ModeTransitions ==
    /\ [](pc = "read" =>
             \A ev \in AllEvents :
                 AfterEvent(ev).mode = ExpectedMode(ev, editor.mode))
    /\ [][pc # "read" => editor'.mode = editor.mode]_vars

\* Enter in Command mode went back to Normal and submitted a command
C5_Witness ==
    /\ pc = "drain"
    /\ editor.mode = "Normal"
    /\ editor.command_queue # <<>>
    /\ HasCall(Call("on_event", 0, 3, "Consumed"))

UnsavedWarning ==
    Status("No write since last change (add ! to override)", <<>>)

\* C6: q sets should_quit exactly when dirty is false; with dirty true it
\* only sets the status to the warning; q! always sets should_quit
C6_GuardedQuit ==
    [][\A ios \in QueuedWrites : Drain(ios) =>
           /\ OneCommand(<<"q">>) =>
                  /\ editor'.should_quit = ~editor.dirty
                  /\ editor.dirty =>
                         /\ editor' = [editor EXCEPT
                                           !.status = UnsavedWarning,
                                           !.command_queue = <<>>]
                         /\ disk' = disk
           /\ OneCommand(<<"q", "!">>) => editor'.should_quit]_vars

\* q was refused on a dirty buffer
C6_Witness ==
    /\ pc = "quit_check"
    /\ HasCall(Call("on_command", 1, 1, "Consumed"))
    /\ editor.status = UnsavedWarning
    /\ editor.dirty
    /\ ~editor.should_quit

\* C7: w writes to the argument, else to the file identity; a successful
\* write makes the target the file identity and clears dirty; a failed
\* write or a missing name changes the status alone; should_quit stays unset
C7_SaveOutcome ==
    [][\A ios \in QueuedWrites : Drain(ios) /\ OneCommand(<<"w">>) =>
           /\ IF Target # None /\ ios[1] = IoOk
              THEN /\ editor'.file_path = Target
                   /\ editor'.dirty = FALSE
                   /\ editor'.buffer = editor.buffer
                   /\ disk' = Some(File(Target[1],
                                        Buffer_to_string(editor.buffer)))
              ELSE /\ editor' = [editor EXCEPT !.status = editor'.status,
                                               !.command_queue = <<>>]
                   /\ disk' = disk
           /\ ~editor'.should_quit]_vars

\* an edited buffer was written to the path given to w, which became the
\* file identity
C7_Witness ==
    /\ pc = "quit_check"
    /\ HasCall(Call("on_command", 1, 1, "Consumed"))
    /\ editor.status = Status("Wrote {}", <<"w">>)
    /\ editor.file_path = Some(<<"w">>)
    /\ editor.revision = U64(1)
    /\ ~editor.dirty
    /\ ~editor.should_quit

\* C8: wq and x save as w does and set should_quit exactly when that save
\* succeeded; otherwise should_quit stays unset and dirty is unchanged
C8_SaveAndQuit ==
    [][\A ios \in QueuedWrites :
           Drain(ios) /\ (OneCommand(<<"w", "q">>) \/ OneCommand(<<"x">>)) =>
               LET saved == Target # None /\ ios[1] = IoOk
                   w == command_w(take_commands(editor)[1], disk, QueuedParts,
                                  ios[1])
               IN  /\ editor'.should_quit = saved
                   /\ editor' = [w.editor EXCEPT !.should_quit = saved]
                   /\ disk' = w.disk
                   /\ ~saved => editor'.dirty = editor.dirty]_vars

\* wq or x failed to write a dirty buffer: no quit, still dirty
C8_Witness ==
    /\ pc = "quit_check"
    /\ HasCall(Call("on_command", 1, 1, "Consumed"))
    /\ editor.status = Status("Write failed: {}", <<"PermissionDenied">>)
    /\ editor.dirty
    /\ ~editor.should_quit
    /\ editor.file_path = None

\* the verbs of FileCommandPlugin
Verbs == {<<"w">>, <<"w", "q">>, <<"x">>, <<"q">>, <<"q", "!">>}

\* C9: a command whose verb is none of w, wq, x, q, q! is consumed by
\* FileCommandPlugin with no effect: its on_command is the only one called
C9_UnknownVerbConsumed ==
    [][\A ios \in QueuedWrites :
           Drain(ios) /\ Len(editor.command_queue) = 1
                      /\ QueuedParts[1] \notin Verbs =>
               /\ calls' = Append(calls, Call("on_command", 1, 1, "Consumed"))
               /\ editor' = take_commands(editor)[1]
               /\ disk' = disk]_vars

\* the commands of the queue were dispatched one after the other, in the
\* order of the queue, each from the first plugin on
DrainedInOrder ==
    LET starts == SelectSeq(calls', LAMBDA c : c.hook = "on_command"
                                                /\ c.plugin = 1)
    IN  /\ Len(starts) = Len(editor.command_queue)
        /\ \A k \in 1..Len(starts) : starts[k].item = k
        /\ \A k \in 1..Len(calls) : calls'[k] = calls[k]
        /\ \A k \in (Len(calls) + 1)..Len(calls') :
               calls'[k].hook = "on_command"

OnRenderCalls(log) == SelectSeq(log, LAMBDA c : c.hook = "on_render")

\* the context a render plugin leaves when it is the only one to draw
DrawnAlone(name, e) ==
    on_render(name, SyntaxHighlightPlugin_new, e,
              RenderContext_new(e.screen_width, e.screen_height)).ctx

\* the text of screen row `row`: that of the last plugin, in registration
\* order, that writes the row
LastWritten(e, row) ==
    IF e.command_line.active /\ row = command_row(e)
    THEN DrawnAlone("CommandLineRenderPlugin", e).lines[row + 1]
    ELSE IF row = status_row(e)
    THEN DrawnAlone("StatusBarPlugin", e).lines[row + 1]
    ELSE DrawnAlone("BufferRenderPlugin", e).lines[row + 1]

\* C11: a render pass calls on_render of every plugin once, in registration
\* order, on a context built anew for the size of the screen; every row of
\* the frame holds what the last plugin that writes the row wrote, rows no
\* plugin gives spans have none, and the editor is left as it was
C11_RenderDispatch ==
    [][pc = "render" =>
           /\ editor' = editor
           /\ Len(OnRenderCalls(render_calls')) = Len(Plugins)
           /\ \A i \in 1..Len(Plugins) :
                  OnRenderCalls(render_calls')[i] = Call("on_render", 0, i, "()")
           /\ frame' # None
           /\ frame'[1].width = editor.screen_width
           /\ frame'[1].height = editor.screen_height
           /\ Len(frame'[1].lines) = editor.screen_height
           /\ Len(frame'[1].spans) = editor.screen_height
           /\ \A row \in 0..(editor.screen_height - 1) :
                  /\ frame'[1].lines[row + 1] = LastWritten(editor, row)
                  /\ row >= content_height(editor)
                         => frame'[1].spans[row + 1] = <<>>
           /\ frame'[1].cursor =
                  DrawnAlone("CursorRenderPlugin", editor).cursor]_vars

\* on a terminal of one row the status bar and the command line are drawn on
\* the same row, and the frame shows the command line
C11_Witness ==
    /\ pc = "read"
    /\ editor.screen_height = 1
    /\ editor.mode = "Command"
    /\ editor.command_line.input = <<"q">>
    /\ status_row(editor) = command_row(editor)
    /\ frame = Some([width |-> RenderWidth, height |-> 1,
                     lines |-> <<<<":", "q">>>>, spans |-> <<<<>>>>,
                     cursor |-> Some(<<0, 2>>)])

\* a render pass called rehighlight
HasRehighlight(log) == \E k \in 1..Len(log) : log[k].hook = "rehighlight"

\* C12: a render pass recomputes the highlight cache, once, exactly when the
\* revision, the file identity or the line count of the editor differs from
\* what the cache holds; otherwise it leaves the cache as it is; after the
\* pass the cache holds the stamp of the editor, and no other step of the
\* loop touches the cache
C12_HighlightCache ==
    [][/\ pc = "render" =>
              /\ HasRehighlight(render_calls') <=>
                     \/ editor.revision # syntax_plugin.last_revision
                     \/ editor.file_path # syntax_plugin.last_path
                     \/ NumLines(editor) # Len(syntax_plugin.cached_spans)
              /\ Cardinality({k \in 1..Len(render_calls') :
                                  render_calls'[k].hook = "rehighlight"}) <= 1
              /\ ~HasRehighlight(render_calls')
                     => syntax_plugin' = syntax_plugin
              /\ syntax_plugin'.last_revision = editor.revision
              /\ syntax_plugin'.last_path = editor.file_path
              /\ Len(syntax_plugin'.cached_spans) = NumLines(editor)
       /\ pc # "render" => syntax_plugin' = syntax_plugin]_vars

\* after an edit, a second render pass at the same revision reused the cache
C12_Witness ==
    /\ pc = "read"
    /\ editor.revision = U64(1)
    /\ render_calls # <<>>
    /\ ~HasRehighlight(render_calls)
    /\ syntax_plugin.last_revision = U64(1)

----------------------------------------------------------------------------
(* The buffer and the file *)

\* C13: the buffer that a sequence of insert_char, insert_newline, backspace
\* and delete_char leaves is the buffer that loading its own serialization
\* gives: to_string followed by from_string yields the same lines
C13_RoundTrip ==
    pc = "api" =>
        Buffer_from_string(Buffer_to_string(editor.buffer)).lines
            = editor.buffer.lines

\* the number of line breaks of s
LineBreaks(s) == Cardinality({k \in 1..Len(s) : s[k] = "\n"})

\* C14: loading a content s gives a buffer that serializes to s; it has one
\* line more than s has line breaks, and its last line is empty when s ends
\* in a line break; saving a buffer that is the loaded content, unedited,
\* leaves the file as it was
C14_VerbatimPersistence ==
    [][/\ Op_load =>
              LET s == disk[1].contents
              IN  /\ editor'.buffer = Buffer_from_string(s)
                  /\ Buffer_to_string(editor'.buffer) = s
                  /\ LineBreaks(s) = NumLines(editor') - 1
                  /\ (s # <<>> /\ s[Len(s)] = "\n")
                         => editor'.buffer.lines[NumLines(editor')] = <<>>
                  /\ save_to_path(editor', disk, editor'.file_path[1],
                                  IoOk).disk = disk
       /\ (/\ Op_save
           /\ disk # None
           /\ editor.buffer = Buffer_from_string(disk[1].contents))
              => disk' = disk]_vars

\* a content of one line and a final line break was loaded as two lines, the
\* last one empty
C14_Witness ==
    /\ pc = "api"
    /\ disk = Some(File(<<"x">>, <<"i", "\n">>))
    /\ editor.buffer.lines = <<<<"i">>, <<>>>>
    /\ editor.revision = U64Zero
    /\ ~editor.dirty

----------------------------------------------------------------------------
(* The edits, one at a time *)

\* lines without the line of index i (from 1)
WithoutLine(lines, i) == SubSeq(lines, 1, i - 1) \o SubSeq(lines, i + 1, Len(lines))

\* C15: backspace with the cursor at (r, 0), 0 < r, on a line of the buffer
\* removes line r, appends its text to line r-1 and leaves the cursor at
\* (r-1, n), n the number of characters line r-1 had; dirty is set and the
\* revision bumped; at (0, 0) the buffer, the cursor, dirty and the revision
\* stay as they are
C15_BackspaceAtLineStart ==
    [][(/\ Op_backspace(OpsEnv)
        /\ pc' = "api"
        /\ editor.cursor.col = 0
        /\ editor.cursor.row < NumLines(editor))
          => LET r == editor.cursor.row
                 lines == editor.buffer.lines
             IN  IF r > 0
                 THEN /\ editor'.buffer.lines =
                             [WithoutLine(lines, r + 1) EXCEPT
                                  ![r] = lines[r] \o lines[r + 1]]
                      /\ editor'.cursor = [row |-> r - 1, col |-> Len(lines[r])]
                      /\ editor'.dirty
                      /\ editor'.revision = wrapping_add_one(editor.revision)
                 ELSE /\ editor'.buffer = editor.buffer
                      /\ editor'.cursor = editor.cursor
                      /\ editor'.dirty = editor.dirty
                      /\ editor'.revision = editor.revision]_vars

\* line without its character of index c (from 0)
WithoutChar(line, c) == SubSeq(line, 1, c) \o SubSeq(line, c + 2, Len(line))

\* C16: delete_char with the cursor (r, c) in line r removes the character
\* at c; with c at the end of line r and a line r+1, it appends line r+1 to
\* line r and removes it; in both cases the cursor stays, dirty is set and
\* the revision bumped; at the end of the last line the buffer, the cursor,
\* dirty and the revision stay as they are; it does not panic
C16_DeleteChar ==
    [][(/\ Op_delete_char(OpsEnv)
        /\ editor.cursor.row < NumLines(editor)
        /\ editor.cursor.col <= Len(LineAt(editor, editor.cursor.row)))
          => LET r == editor.cursor.row
                 c == editor.cursor.col
                 lines == editor.buffer.lines
                 changed == /\ editor'.cursor = editor.cursor
                            /\ editor'.dirty
                            /\ editor'.revision
                                   = wrapping_add_one(editor.revision)
             IN  /\ pc' = "api"
                 /\ IF c < Len(lines[r + 1])
                    THEN /\ editor'.buffer.lines =
                                [lines EXCEPT ![r + 1] = WithoutChar(@, c)]
                         /\ changed
                    ELSE IF r + 1 < Len(lines)
                    THEN /\ editor'.buffer.lines =
                                [WithoutLine(lines, r + 2) EXCEPT
                                     ![r + 1] = lines[r + 1] \o lines[r + 2]]
                         /\ changed
                    ELSE /\ editor'.buffer = editor.buffer
                         /\ editor'.cursor = editor.cursor
                         /\ editor'.dirty = editor.dirty
                         /\ editor'.revision = editor.revision]_vars

\* delete_char at the end of "ie" joined the line "i" to it
C16_Witness ==
    /\ pc = "api"
    /\ editor.buffer.lines = <<<<"i", EAcute, "i">>>>
    /\ editor.cursor = [row |-> 0, col |-> 2]
    /\ editor.dirty
    /\ editor.revision = U64(1)

\* C17: insert_newline with the cursor (r, c) in line r, c at most the
\* number of characters of the line, replaces line r by its first c
\* characters and inserts the rest as a new line at r+1: one line more, the
\* other lines as they were and in order; the cursor is at (r+1, 0), dirty
\* is set and the revision bumped
C17_InsertNewlineSplit ==
    [][(/\ Op_insert_newline(OpsEnv)
        /\ editor.cursor.row < NumLines(editor)
        /\ editor.cursor.col <= Len(LineAt(editor, editor.cursor.row)))
          => LET r == editor.cursor.row
                 c == editor.cursor.col
                 lines == editor.buffer.lines
             IN  /\ pc' = "api"
                 /\ Len(editor'.buffer.lines) = Len(lines) + 1
                 /\ editor'.buffer.lines =
                        SubSeq(lines, 1, r)
                            \o <<SubSeq(lines[r + 1], 1, c),
                                 SubSeq(lines[r + 1], c + 1, Len(lines[r + 1]))>>
                            \o SubSeq(lines, r + 2, Len(lines))
                 /\ editor'.cursor = [row |-> r + 1, col |-> 0]
                 /\ editor'.dirty
                 /\ editor'.revision = wrapping_add_one(editor.revision)]_vars

\* insert_newline in the middle of the first of two lines made three
C17_Witness ==
    /\ pc = "api"
    /\ editor.buffer.lines = <<<<"i">>, <<EAcute>>, <<>>>>
    /\ editor.cursor = [row |-> 1, col |-> 0]
    /\ editor.dirty
    /\ editor.revision = U64(1)

----------------------------------------------------------------------------
(* The cursor and the viewport *)

\* C18: after ensure_cursor_visible, whatever the cursor, the offsets and
\* the size of the screen were, the cursor row is in
\* [row_offset, row_offset + content_height) and the cursor column in
\* [col_offset, col_offset + width), content_height being the screen height
\* less 1, or less 2 while the command line is active; an offset whose
\* extent is zero is the cursor coordinate; the cursor is not moved
C18_CursorVisible ==
    pc = "api" =>
        LET e1 == ensure_cursor_visible(editor)
            gutter == IF editor.command_line.active THEN 2 ELSE 1
            height == IF editor.screen_height > gutter
                      THEN editor.screen_height - gutter ELSE 0
            width == editor.screen_width
        IN  /\ content_height(editor) = height
            /\ e1.cursor = editor.cursor
            /\ IF height > 0
               THEN /\ e1.viewport.row_offset <= e1.cursor.row
                    /\ e1.cursor.row < e1.viewport.row_offset + height
               ELSE e1.viewport.row_offset = e1.cursor.row
            /\ IF width > 0
               THEN /\ e1.viewport.col_offset <= e1.cursor.col
                    /\ e1.cursor.col < e1.viewport.col_offset + width
               ELSE e1.viewport.col_offset = e1.cursor.col

\* the cursor at (3, 3) was below and right of a view of one row and one
\* column, the command line active, and is now its only cell
C18_Witness ==
    /\ pc = "api"
    /\ editor.command_line.active
    /\ editor.screen_height = 3
    /\ editor.screen_width = 1
    /\ editor.cursor = [row |-> 3, col |-> 3]
    /\ editor.viewport = [row_offset |-> 3, col_offset |-> 3]
    /\ editor = ensure_cursor_visible(
                    [editor EXCEPT !.viewport = [row_offset |-> 0,
                                                 col_offset |-> 0]])

\* C19: clamp_cursor on a buffer of at least one line, wherever the cursor
\* is, leaves the row below the number of lines and the column at most the
\* number of characters of the line at that row; a cursor already within
\* both bounds stays where it is; nothing but the cursor changes
C19_ClampCursor ==
    pc = "api" =>
        LET e1 == clamp_cursor(editor)
            within == /\ editor.cursor.row < NumLines(editor)
                      /\ editor.cursor.col
                             <= Len(LineAt(editor, editor.cursor.row))
        IN  /\ NumLines(editor) >= 1
            /\ e1.cursor.row < NumLines(e1)
            /\ e1.cursor.col <= Len(LineAt(e1, e1.cursor.row))
            /\ within => e1.cursor = editor.cursor
            /\ e1 = [editor EXCEPT !.cursor = e1.cursor]

\* a cursor far right of the line "ie" that clamp_cursor brings to its end
C19_Witness ==
    /\ pc = "api"
    /\ editor.buffer.lines = <<<<"i", EAcute>>>>
    /\ editor.cursor = [row |-> 0, col |-> 3]
    /\ clamp_cursor(editor).cursor = [row |-> 0, col |-> 2]

----------------------------------------------------------------------------
(* The revision *)

\* a step of an operation that mutates the content: insert_char,
\* insert_newline, or a backspace or delete_char that changes the buffer
ContentMutation ==
    /\ pc' = "api"
    /\ \/ Op_insert_char(RevEnv)
       \/ Op_insert_newline(RevEnv)
       \/ (Op_backspace(RevEnv) \/ Op_delete_char(RevEnv))
              /\ editor'.buffer # editor.buffer

\* a step of a cursor motion, a mode change, a resize, a save or a render
NoContentMutation ==
    \/ Op_move(RevEnv)
    \/ Op_set_screen_size(RevEnv)
    \/ Op_mode(RevEnv)
    \/ Op_save
    \/ Op_render

\* C20: every operation that mutates the content leaves the revision
\* strictly greater than it was, and no cursor motion, mode change, resize,
\* save or render changes the revision
C20_RevisionIncreases ==
    [][/\ ContentMutation => U64Less(editor.revision, editor'.revision)
       /\ NoContentMutation => editor'.revision = editor.revision]_vars

\* C20, amended: every operation that mutates the content leaves the
\* revision one more than it was, modulo 2^64: strictly greater, except that
\* the revision after u64::MAX is 0; no cursor motion, mode change, resize,
\* save or render changes the revision
C20_RevisionBumps ==
    [][/\ ContentMutation =>
              /\ editor'.revision = wrapping_add_one(editor.revision)
              /\ editor.revision # U64Max
                     => U64Less(editor.revision, editor'.revision)
              /\ editor.revision = U64Max => editor'.revision = U64Zero
       /\ NoContentMutation => editor'.revision = editor.revision]_vars

\* an edit at revision u64::MAX left the revision 0
C20_Witness ==
    /\ pc = "api"
    /\ editor.revision = U64Zero
    /\ editor.dirty

----------------------------------------------------------------------------
(* Modes and the command line *)

\* C21: in every mode an Escape key sets the mode to Normal, deactivates
\* the command line and clears its input; nothing is added to the command
\* queue, and the buffer, the cursor, dirty, the revision and should_quit,
\* like every other field, stay as they are
C21_Escape ==
    pc = "read" =>
        \A m \in ModifierSets :
            LET e1 == AfterEvent(Key("Esc", "", m))
            IN  /\ e1.mode = "Normal"
                /\ e1.command_line = [active |-> FALSE, input |-> <<>>]
                /\ e1.command_queue = editor.command_queue
                /\ e1.buffer = editor.buffer
                /\ e1.cursor = editor.cursor
                /\ e1.dirty = editor.dirty
                /\ e1.revision = editor.revision
                /\ e1.should_quit = editor.should_quit
                /\ e1 = [editor EXCEPT !.mode = e1.mode,
                                       !.command_line = e1.command_line]

\* Escape, consumed by ModePlugin, left Normal mode after an edit
C21_Witness ==
    /\ pc = "drain"
    /\ calls = <<Call("on_event", 0, 1, "Ignored"),
                 Call("on_event", 0, 2, "Consumed")>>
    /\ editor.mode = "Normal"
    /\ editor.dirty
    /\ editor.command_queue = <<>>

\* C22: in every reachable state the command line is active exactly when
\* the mode is Command, and its input is empty when the mode is not
\* Command; the input is empty right after Command mode is entered and
\* right after it is left, by Escape or by Enter
C22_CommandLineStaging ==
    /\ [](/\ editor.command_line.active <=> editor.mode = "Command"
          /\ editor.mode # "Command" => editor.command_line.input = <<>>)
    /\ [][(editor.mode = "Command") # (editor'.mode = "Command")
              => editor'.command_line.input = <<>>]_vars

\* Enter submitted the command w and left the command line empty
C22_Witness ==
    /\ pc = "drain"
    /\ editor.command_queue = <<<<"w">>>>
    /\ editor.mode = "Normal"
    /\ ~editor.command_line.active
    /\ editor.command_line.input = <<>>

----------------------------------------------------------------------------
(* Typing and writing, end to end *)

\* C23: from an empty buffer with a file identity, the keys 'i', c1..cn
\* (no line breaks), Escape, ':', 'w', Enter queue the one command w, and
\* its write, when it succeeds, leaves a file whose content is exactly
\* c1..cn and dirty false; after the following ':', 'q', '!', Enter
\* should_quit is set and the loop ends
C23_TypeAndWrite ==
    /\ [](\A cs \in Strings(TypeChars, MaxTyped) :
              /\ (keys = WriteScript(cs) /\ pc = "drain")
                     => /\ editor.command_queue = <<<<"w">>>>
                        /\ editor.buffer.lines = <<cs>>
                        /\ editor.dirty = (cs # <<>>)
              /\ (keys = QuitScript(cs) /\ pc \in {"quit_check", "exited"})
                     => editor.should_quit
              /\ (keys = QuitScript(cs) /\ pc = "render") => FALSE)
    /\ [][\A cs \in Strings(TypeChars, MaxTyped) :
              (keys = WriteScript(cs) /\ Drain([k \in {1} |-> IoOk]))
                 => /\ disk' = Some(File(<<"x">>, cs))
                    /\ ~editor'.dirty
                    /\ ~editor'.should_quit]_vars

\* ':' and a two-byte char were typed and written, and q! ended the loop
C23_Witness ==
    /\ pc = "exited"
    /\ keys = QuitScript(<<":", EAcute>>)
    /\ disk = Some(File(<<"x">>, <<":", EAcute>>))
    /\ ~editor.dirty
    /\ editor.should_quit

----------------------------------------------------------------------------
(* Resize *)

\* the cursor of e is inside its viewport, or on its origin where the
\* viewport has no extent
CursorInView(e) ==
    /\ IF content_height(e) > 0
       THEN /\ e.viewport.row_offset <= e.cursor.row
            /\ e.cursor.row < e.viewport.row_offset + content_height(e)
       ELSE e.viewport.row_offset = e.cursor.row
    /\ IF e.screen_width > 0
       THEN /\ e.viewport.col_offset <= e.cursor.col
            /\ e.cursor.col < e.viewport.col_offset + e.screen_width
       ELSE e.viewport.col_offset = e.cursor.col

\* C24: a resize event sets the screen width and height of the editor and
\* makes the cursor visible again; the event is then passed to on_event of
\* every plugin in order, none of which consumes it; the buffer, the
\* cursor, the mode, the command line, dirty and the revision, like every
\* field but the size and the viewport, stay as they are
C24_Resize ==
    [][\A ev \in ResizeEvents(RenderSizes) :
           ReadEvent(ev) =>
               /\ editor'.screen_width = ev.width
               /\ editor'.screen_height = ev.height
               /\ CursorInView(editor')
               /\ calls' = [i \in 1..Len(Plugins) |->
                                Call("on_event", 0, i, "Ignored")]
               /\ editor'.buffer = editor.buffer
               /\ editor'.cursor = editor.cursor
               /\ editor'.mode = editor.mode
               /\ editor'.command_line = editor.command_line
               /\ editor'.dirty = editor.dirty
               /\ editor'.revision = editor.revision
               /\ editor' = [editor EXCEPT
                                 !.screen_width = ev.width,
                                 !.screen_height = ev.height,
                                 !.viewport = editor'.viewport]
               /\ pc' = "drain"]_vars

\* the terminal, RenderWidth columns wide when the last frame was drawn,
\* was resized to one column, and the view followed the cursor to column 1
C24_Witness ==
    /\ pc = "drain"
    /\ frame # None
    /\ frame[1].width = RenderWidth
    /\ editor.screen_width = MaxWidth
    /\ editor.screen_height = MaxHeight
    /\ editor.cursor = [row |-> 0, col |-> 1]
    /\ editor.viewport = [row_offset |-> 0, col_offset |-> 1]
    /\ Len(calls) = Len(Plugins)

----------------------------------------------------------------------------
(* Loading at init *)

\* C25: at init, with no document path the buffer is one empty line and
\* nothing is loaded; with a path whose load fails the buffer stays one
\* empty line, dirty false, the file identity kept and should_quit unset,
\* and the status alone is set; after a successful load the buffer is the
\* content split on line breaks, the cursor and the viewport are at the
\* origin, dirty is false and the revision is 0
C25_LoadOutcomes ==
    [][pc = "init" =>
           /\ editor.buffer.lines = <<<<>>>>
           /\ editor.file_path = None
                  => /\ editor' = editor
                     /\ disk' = None
                     /\ editor'.buffer.lines = <<<<>>>>
           /\ (editor.file_path # None /\ disk' = None)
                  => /\ editor'.buffer.lines = <<<<>>>>
                     /\ ~editor'.dirty
                     /\ editor'.file_path = editor.file_path
                     /\ ~editor'.should_quit
                     /\ editor'.status # NoStatus
                     /\ editor' = [editor EXCEPT !.status = editor'.status]
           /\ (editor.file_path # None /\ disk' # None)
                  => LET c == disk'[1].contents
                         lines == editor'.buffer.lines
                     IN  /\ disk'[1].path = editor.file_path[1]
                         /\ join_newline(lines) = c
                         /\ Len(lines) = LineBreaks(c) + 1
                         /\ \A i \in 1..Len(lines) :
                                \A k \in 1..Len(lines[i]) : lines[i][k] # "\n"
                         /\ editor'.cursor = [row |-> 0, col |-> 0]
                         /\ editor'.viewport = [row_offset |-> 0,
                                                col_offset |-> 0]
                         /\ ~editor'.dirty
                         /\ editor'.revision = U64Zero
                         /\ editor'.file_path = editor.file_path
                         /\ ~editor'.should_quit]_vars

\* the load failed with an error other than not-found: the buffer is one
\* empty line, and the status says so
C25_Witness ==
    /\ pc = "render"
    /\ frame = None
    /\ editor.file_path = Some(<<"x">>)
    /\ editor.status = Status("Open failed: {}", <<"PermissionDenied">>)
    /\ editor.buffer.lines = <<<<>>>>
    /\ ~editor.dirty
    /\ ~editor.should_quit
    /\ disk = None

----------------------------------------------------------------------------
(* The functions of the render plugins *)

\* the last call, if it was one of name
LastCall(name) ==
    IF render_calls # <<>> /\ render_calls[1].hook = name
    THEN {render_calls[1]} ELSE {}

\* C26: for every left text, right text and width W > 0, a right text of
\* at least W characters gives its first W characters; a shorter one gives
\* a prefix of the left text (as much as leaves room for one space), then
\* one or more spaces, then the whole right text, W characters in all; for
\* W = 0 the output is empty
C26_StatusLine ==
    \A c \in LastCall("format_status_line") :
        LET left == c.args[1]
            right == c.args[2]
            W == c.args[3]
            out == c.result
        IN  IF W = 0 THEN out = <<>>
            ELSE IF Len(right) >= W THEN out = SubSeq(right, 1, W)
            ELSE LET p == Min(Len(left), W - Len(right) - 1)
                     n == W - p - Len(right)
                 IN  /\ n >= 1
                     /\ Len(out) = W
                     /\ SubSeq(out, 1, p) = SubSeq(left, 1, p)
                     /\ \A k \in (p + 1)..(p + n) : out[k] = " "
                     /\ SubSeq(out, p + n + 1, W) = right

\* the left text "aa" lost its last character to the space before the
\* right text "a" on a line of three columns
C26_Witness ==
    /\ pc = "api"
    /\ \E c \in LastCall("format_status_line") :
           /\ c.args = <<<<"a", "a">>, <<"a">>, 3>>
           /\ c.result = <<"a", " ", "a">>

\* C27: for every ordered, non-overlapping span list, every col_offset and
\* every width, slice_spans returns the non-empty intersections of the
\* spans with [col_offset, col_offset + width), in the order of the spans,
\* their starts less col_offset; every span returned ends at or before
\* width, the result is ordered by start and non-overlapping, and it is
\* empty when width is 0
C27_SpanWindow ==
    \A c \in LastCall("slice_spans") :
        LET spans == c.args[1]
            off == c.args[2]
            width == c.args[3]
            out == c.result
            lo(k) == Max(spans[k].start, off)
            hi(k) == Min(spans[k].start + spans[k].len, off + width)
            Kept == {k \in 1..Len(spans) : lo(k) < hi(k)}
            nth(j) == CHOOSE k \in Kept :
                          Cardinality({i \in Kept : i <= k}) = j
        IN  /\ OrderedSpans(spans)
            /\ Len(out) = Cardinality(Kept)
            /\ \A j \in 1..Len(out) :
                   /\ out[j] = StyledSpan(lo(nth(j)) - off,
                                          hi(nth(j)) - lo(nth(j)),
                                          spans[nth(j)].style)
                   /\ out[j].len > 0
                   /\ out[j].start + out[j].len <= width
            /\ OrderedSpans(out)
            /\ width = 0 => out = <<>>

\* of two spans, the first was left of the window and the second was cut
\* at both ends of it
C27_Witness ==
    /\ pc = "api"
    /\ \E c \in LastCall("slice_spans") :
           /\ c.args = <<<<StyledSpan(0, 1, 1), StyledSpan(1, 2, 2)>>, 2, 1>>
           /\ c.result = <<StyledSpan(0, 1, 2)>>

----------------------------------------------------------------------------
(* The viewport and the highlight cache at every frame *)

\* C28: in every state from which a render pass runs, in every mode, also
\* right after ':' made the command line active and content_height one
\* less, the cursor is inside the window: row_offset <= cursor.row <
\* row_offset + content_height and col_offset <= cursor.col < col_offset +
\* width, where the extent is not zero
C28_ViewportAtFrame ==
    pc = "render" =>
        /\ content_height(editor) > 0
               => /\ editor.viewport.row_offset <= editor.cursor.row
                  /\ editor.cursor.row
                         < editor.viewport.row_offset + content_height(editor)
        /\ editor.screen_width > 0
               => /\ editor.viewport.col_offset <= editor.cursor.col
                  /\ editor.cursor.col
                         < editor.viewport.col_offset + editor.screen_width

\* the cache was computed from the lines and the file identity of e
CacheFrom(hl, e) ==
    /\ hl.source = [lines |-> e.buffer.lines, path |-> e.file_path]
    /\ hl.cached_spans = rehighlight_lines(e, 0, <<>>)

\* C29: the cache a render pass uses, after its check for a recompute, was
\* computed from the lines and the file identity the editor has; that is,
\* whenever a pass is about to run and the revision, the file identity and
\* the line count equal the stamp of the cache, the buffer is the one the
\* cache was computed from, also across the wrap of the revision and with
\* the initial stamp u64::MAX
C29_CacheNeverStale ==
    /\ [][pc = "render" => CacheFrom(syntax_plugin', editor)]_vars
    /\ []((/\ pc = "render"
           /\ editor.revision = syntax_plugin.last_revision
           /\ editor.file_path = syntax_plugin.last_path
           /\ NumLines(editor) = Len(syntax_plugin.cached_spans))
              => CacheFrom(syntax_plugin, editor))

\* two edits took the revision from u64::MAX - 1 to 0, and the frame drawn
\* after the wrap used a cache computed from the buffer of two chars
C29_Witness ==
    /\ pc = "read"
    /\ editor.revision = U64Zero
    /\ editor.dirty
    /\ editor.buffer.lines = <<<<"i", "i">>>>
    /\ syntax_plugin.last_revision = U64Zero
    /\ CacheFrom(syntax_plugin, editor)

\* the content of the buffer of e is the content of the last successful
\* save or load, which d records, or the initial empty buffer if d is None
LastStored(e, d) ==
    IF d = None THEN e.buffer = Buffer_new
    ELSE Buffer_to_string(e.buffer) = d[1].contents

\* the verbs of the queued commands
QueuedVerbs(e) ==
    {split_whitespace(trim(e.command_queue[k]))[1] :
         k \in {j \in 1..Len(e.command_queue) :
                    trim(e.command_queue[j]) # <<>>}}

\* C30: in every reachable state with dirty false the content of the buffer
\* is that of the most recent successful save or load, or the initial empty
\* buffer if there was none; and when the queued commands set the quit flag
\* and none of them is q!, the content of the buffer is that content
C30_NoSilentLoss ==
    /\ [](~editor.dirty => LastStored(editor, disk))
    /\ [][(/\ pc = "drain"
           /\ ~editor.should_quit
           /\ editor'.should_quit
           /\ <<"q", "!">> \notin QueuedVerbs(editor))
              => LastStored(editor', disk')]_vars

\* the char typed was written and the quit flag is set: the file holds the
\* content of the buffer
C30_Witness ==
    /\ pc = "quit_check"
    /\ editor.should_quit
    /\ ~editor.dirty
    /\ editor.buffer.lines = <<<<"i">>>>
    /\ disk = Some(File(<<"x">>, <<"i">>))
    /\ calls[Len(calls)] = Call("on_command", 1, 1, "Consumed")

----------------------------------------------------------------------------
(* Edit inverses *)

\* backspace on e1, the editor an insertion into the current one left, does
\* not panic and gives back the lines and the cursor of the current editor
RestoredFrom(e1) ==
    /\ ~backspace_panics(e1)
    /\ backspace(e1).buffer.lines = editor.buffer.lines
    /\ backspace(e1).cursor = editor.cursor

\* insert_newline, then backspace
InsertNewlineInverse ==
    /\ ~insert_newline_panics(editor)
    /\ RestoredFrom(insert_newline(editor))

\* insert_char(ch), then backspace, for a char of one byte and one of two
InsertCharInverse ==
    \A ch \in OpsEnv.chars :
        /\ ~insert_char_panics(editor, ch)
        /\ RestoredFrom(insert_char(editor, ch))

\* C31: from any state whose cursor is in the buffer (row below the number
\* of lines, column at most the number of characters of its line),
\* insert_newline followed by backspace, and insert_char(ch) followed by
\* backspace, give back the lines and the cursor (row, col) the editor had
\* before the pair, whatever the storage width of the chars of the lines
C31_EditInverses ==
    (pc = "api" /\ C3_CursorInvariant)
        => InsertNewlineInverse /\ InsertCharInverse

\* the half of C31 about insert_char
C31_InsertCharHalf ==
    (pc = "api" /\ C3_CursorInvariant) => InsertCharInverse

====
